---- MODULE Spec2Model ----
(***************************************************************************)
(* A model of sretoolbox.container.image.Image: the manifest accessors,    *)
(* the response cache strategies, the low-level request primitive with its *)
(* authentication challenge handling, and the retry decorator around it.   *)
(*                                                                         *)
(* An Image is a sequential process.  Every HTTP exchange (request sent,   *)
(* response or connection error received, response handled up to the next  *)
(* exchange) is one step; the registry and the token endpoint answer       *)
(* nondeterministically.                                                   *)
(***************************************************************************)
EXTENDS Integers, Sequences, FiniteSets, TLC

None == "None"

(***************************************************************************)
(* Bounds of the model.                                                    *)
(***************************************************************************)
\* an Image starts no further manifest fetch once it counted this many
\* hits and misses (a failing fetch can count a miss again and again)
MaxCount == 2

\* the tag list and the count of page requests of one listing are tracked up
\* to this many pages; a listing that goes on keeps its state from there
MaxPages == 3

\* pmap is called with iterables of up to this many elements
MaxItems == 3

\* and with pools of up to this many workers
MaxPoolSize == 2

\* the cached methods are executed up to this many times in all
MaxExecutions == 5

\* the names given to unique_job_name have up to this many characters
MaxNameLength == 3

(***************************************************************************)
(* Program constants.                                                      *)
(***************************************************************************)
\* @retry(..., max_attempts=5) on Image._do_request
max_attempts == 5

\* HTTPStatus.NOT_MODIFIED in _handle_conditional_request
NOT_MODIFIED == 304
\* "if response.status_code == 401" in _do_request and _get_auth
UNAUTHORIZED == 401
\* _raise_for_status: "if response.status_code < 400: return None"
ERROR_STATUS_FROM == 400
\* _get_tags: tags_per_page = 50
tags_per_page == 50

SCHEMA2_MANIFEST_MEDIA_TYPE == "application/vnd.docker.distribution.manifest.v2+json"

(***************************************************************************)
(* The image slots and the values the caller and the servers draw from.    *)
(***************************************************************************)
Img == {1}

Registries == {"docker.io", "registry.access.redhat.com", "registry.example.com"}

\* (username, password) pairs a caller passes to the constructor
Credentials == {<<None, None>>, <<"alice", "pw1">>, <<"alice", "pw2">>}

AuthServers(reg) == {None, reg, "auth.example.com"}

\* a bearer token handed to the constructor, or none
ConstructorTokens == {None, "Bearer t0"}

\* the token field of a token endpoint's JSON body
IssuedTokens == {"t1"}

\* the empty body of a response that carries no document (not JSON)
EmptyBody == ""

\* requests.ConnectionError raised instead of a response
ConnErr == [status |-> 0]
\* no response (Python's None where a response is expected)
NoResponse == [status |-> -1]
\* self.auth = None
NoAuth == <<>>

\* A response of the registry.  owner is history: the (username, password) of
\* the Image whose request fetched it.
Response(st, dg, ct, et, lm, bd, ch) ==
    [status |-> st, digest |-> dg, ctype |-> ct, etag |-> et, lastmod |-> lm,
     body |-> bd, challenge |-> ch, owner |-> <<None, None>>]

\* The 200 responses the registry serves.  _get_manifest and the manifest
\* property read the digest, the content type, the two validators and the body
\* independently of each other, so the set holds every value of each field
\* (digest a, b or absent; content type present or absent; ETag and
\* Last-Modified both, one or none; a manifest or the JSON document null)
\* without holding every combination.
OkResponses ==
    { Response(200, "sha256:a", SCHEMA2_MANIFEST_MEDIA_TYPE, "e1", "t1", "m1", None),
      Response(200, "sha256:b", SCHEMA2_MANIFEST_MEDIA_TYPE, "e1", None, "m1", None),
      Response(200, None, None, None, "t1", "m1", None),
      Response(200, "sha256:a", SCHEMA2_MANIFEST_MEDIA_TYPE, None, None, "null", None) }

NotModified == Response(NOT_MODIFIED, None, None, None, None, EmptyBody, None)
Challenge == Response(UNAUTHORIZED, None, None, None, None, EmptyBody, "Bearer")
Unauthorized == Response(UNAUTHORIZED, None, None, None, None, EmptyBody, None)
ServerError == Response(500, None, None, None, None, EmptyBody, None)

\* what a call of requests.get / requests.head on the registry can produce
RegistryOutcomes ==
    OkResponses \cup {NotModified, Challenge, Unauthorized, ServerError, ConnErr}

\* what the token endpoint can produce: a token, a 200 whose JSON has no
\* "token", 401, another error status, or a connection error
RealmOutcomes ==
    { [status |-> 200, token |-> t] : t \in IssuedTokens }
    \cup { [status |-> 200, token |-> None],
           [status |-> UNAUTHORIZED, token |-> None],
           [status |-> 500, token |-> None],
           [status |-> 0, token |-> None] }

(***************************************************************************)
(* State.                                                                  *)
(*   img[i]    the fields of the Image object in slot i                    *)
(*   frame[i]  where its running call stands: the accessed property, the   *)
(*             branch of _get_manifest, the locals of _do_request and of   *)
(*             the retry decorator                                         *)
(*   obs[i]    history of the current access, for stating the properties   *)
(*   response_cache  the mapping the caller shares among its Images        *)
(***************************************************************************)
VARIABLES img, frame, obs, response_cache

vars == <<img, frame, obs, response_cache>>

(***************************************************************************)
(* Image.__init__                                                          *)
(***************************************************************************)
\* response_cache_hits = response_cache_misses = None without a response cache
NoCount == -1

InitAuthIgnoringServer(registry, username, password, auth_server) ==
    IF username # None /\ password # None THEN <<username, password>> ELSE NoAuth

\* self.auth: the pair only if both are given, and None when auth_server is
\* given and is not the registry
InitAuth(registry, username, password, auth_server) ==
    IF auth_server # None /\ auth_server # registry
    THEN NoAuth
    ELSE IF username # None /\ password # None
         THEN <<username, password>>
         ELSE NoAuth

\* self._cache_tags = None; once set it holds a list, possibly empty
NoTags == [memoized |-> FALSE, list |-> << >>]

NewImage(registry, username, password, auth_server, has_cache, auth_token) ==
    [registry |-> registry,
     repository |-> IF registry = "docker.io" THEN "library" ELSE "app-sre",
     image |-> "tool",
     tag |-> "latest",
     username |-> username,
     password |-> password,
     auth_server |-> auth_server,
     auth |-> InitAuth(registry, username, password, auth_server),
     auth_token |-> auth_token,
     has_response_cache |-> has_cache,
     registry_api |-> IF registry = "docker.io"
                      THEN "https://registry-1.docker.io"
                      ELSE "https://" \o registry,
     cache_manifest |-> None,
     cache_content_type |-> None,
     cache_digest |-> None,
     cache_tags |-> NoTags,
     response_cache_hits |-> IF has_cache THEN 0 ELSE NoCount,
     response_cache_misses |-> IF has_cache THEN 0 ELSE NoCount]

\* the Images of the response cache scenarios: anonymous or with credentials,
\* with the shared response cache or without one
CacheImages(reg) ==
    { NewImage(reg, c[1], c[2], None, h, None) :
        c \in {<<None, None>>, <<"alice", "pw1">>}, h \in BOOLEAN }

\* the Images of the credential scenarios: any credentials, all sharing the
\* response cache
CredentialImages(reg) ==
    { NewImage(reg, c[1], c[2], None, TRUE, None) : c \in Credentials }

\* the Images of the request scenarios: with or without credentials, any
\* auth_server, with or without a token from the constructor
RequestImages(reg) ==
    { NewImage(reg, c[1], c[2], a, FALSE, t) :
        c \in {<<None, None>>, <<"alice", None>>, <<"alice", "pw1">>},
        a \in AuthServers(reg), t \in ConstructorTokens }

(***************************************************************************)
(* Frames and history.                                                     *)
(***************************************************************************)
NoHeaders == [if_none_match |-> None, if_modified_since |-> None]

IdleFrame ==
    [pc |-> "idle", prop |-> None, stage |-> None, method |-> None,
     headers |-> NoHeaders, attempt |-> 0, cached_response |-> NoResponse,
     scheme |-> None, exception |-> None,
     url |-> None,               \* _get_tags: url of the page being requested
     all_tags |-> << >>]         \* _get_tags: all_tags

NoRequest ==
    [to |-> None, method |-> None, basic |-> NoAuth, bearer |-> None,
     held |-> None, headers |-> NoHeaders]

\* history of one access to a property
FreshObs ==
    [last_request |-> NoRequest, \* the request sent last
     head_requests |-> 0,        \* calls of _do_request with requests.head
     get_requests |-> 0,         \* calls of _do_request with requests.get
     calls |-> 0,                \* registry calls sent in the latest attempt
     negs |-> 0,                 \* token negotiations begun in that attempt
     first |-> -1,               \* status of its first response (0: no response)
     challenge |-> None,         \* the Www-Authenticate header of that response
     second |-> -1,              \* status of the response to the re-sent request
     realm |-> << >>,            \* statuses of the responses of the realm in
                                 \* that attempt (0: no response)
     delays |-> << >>,           \* the sleeps of the running _do_request
     fetch |-> None,             \* None, "running", "returned", "raised"
     hits |-> 0,                 \* increments of response_cache_hits in the fetch
     misses |-> 0,               \* increments of response_cache_misses
     head_digest |-> "-",        \* Docker-Content-Digest of the HEAD response
     get_rsp |-> NoResponse,     \* what _do_request(url) returned
     returned |-> NoResponse,    \* what _get_manifest returned
     result |-> [kind |-> None, value |-> None],
     pages |-> << >>,            \* _get_tags: size and next link of each page
                                 \* received, up to MaxPages pages
     fetched |-> FALSE]          \* a fetch of this Image returned and its
                                 \* body was parsed

(***************************************************************************)
(* Pure helpers of Image.                                                  *)
(***************************************************************************)
\* _HANDLE_RESPONSE_CACHE_METHODS
HandleResponseCacheMethod(registry) ==
    CASE registry = "docker.io" -> "_handle_docker_content_digest"
      [] registry = "quay.io" -> "_handle_docker_content_digest"
      [] registry = "gcr.io" -> "_handle_docker_content_digest"
      [] registry = "registry.access.redhat.com" -> "_handle_conditional_request"
      [] OTHER -> None

CanResponseBeCachedAnywhere(o) == TRUE

\* _can_response_be_cached
CanResponseBeCached(o) == HandleResponseCacheMethod(o.registry) # None

\* the manifest URL built by _get_manifest
ManifestUrl(o) ==
    o.registry_api \o "/v2/" \o o.repository \o "/" \o o.image \o "/manifests/" \o o.tag

GetCacheKeyUrlOnly(o, url) == <<url, None>>

\* _get_cache_key
GetCacheKey(o, url) == <<url, o.username>>

\* response.json() of a manifest response: the document, None for the JSON
\* document null, "JSONDecodeError" for a body that is not JSON
Json(body) ==
    CASE body = "null" -> None
      [] body = EmptyBody -> "JSONDecodeError"
      [] OTHER -> body

RaisesForStatusFrom500(status) == ~(status < 500)

\* _raise_for_status raises HTTPError
RaisesForStatus(status) == ~(status < ERROR_STATUS_FROM)

(***************************************************************************)
(* The steps of one Image, as functions of its machine state               *)
(*   s = [o: the object, f: the frame, g: the history, c: the cache map].  *)
(***************************************************************************)
Machine(i) == [o |-> img[i], f |-> frame[i], g |-> obs[i], c |-> response_cache]

\* the access ends: a value is returned or an exception leaves the property
Finish(s, kind, value) ==
    [s EXCEPT !.f = IdleFrame, !.g.delays = << >>,
              !.g.result = [kind |-> kind, value |-> value]]

\* the tail of the content_type and digest properties (and of manifest)
FinishAccess(s, prop) ==
    CASE prop = "manifest" -> Finish(s, "value", s.o.cache_manifest)
      [] prop = "content_type" ->
            IF s.o.cache_content_type = None
            THEN Finish(s, "HTTPError", "Content-Type header not found.")
            ELSE Finish(s, "value", s.o.cache_content_type)
      [] prop = "digest" ->
            IF s.o.cache_digest = None
            THEN Finish(s, "HTTPError", "Docker-Content-Digest header not found.")
            ELSE Finish(s, "value", s.o.cache_digest)

\* the manifest property, from the return of _get_manifest on
ManifestProperty(s, manifest) ==
    LET s1 == [s EXCEPT !.g.fetch = "returned", !.g.returned = manifest]
        doc == Json(manifest.body)
    IN  IF doc = "JSONDecodeError"
        THEN Finish(s1, "JSONDecodeError", None)
        ELSE FinishAccess([s1 EXCEPT !.o.cache_manifest = doc,
                                     !.o.cache_content_type = manifest.ctype,
                                     !.o.cache_digest = manifest.digest,
                                     !.g.fetched = TRUE],
                          s.f.prop)

\* a call of _do_request: the retry decorator enters its first attempt
BeginRequest(s, stage, method, headers) ==
    [s EXCEPT !.f.pc = "send", !.f.stage = stage, !.f.method = method,
              !.f.headers = headers, !.f.attempt = 1, !.f.exception = None,
              !.g.head_requests = @ + (IF method = "HEAD" THEN 1 ELSE 0),
              !.g.get_requests = @ + (IF method = "GET" THEN 1 ELSE 0),
              !.g.calls = 0, !.g.negs = 0, !.g.first = -1, !.g.second = -1,
              !.g.realm = << >>, !.g.challenge = None, !.g.delays = << >>]

CountMissForgotten(s) == s

\* self.response_cache_misses += 1
CountMiss(s) == [s EXCEPT !.o.response_cache_misses = @ + 1, !.g.misses = @ + 1]

\* self.response_cache_hits += 1
CountHit(s) == [s EXCEPT !.o.response_cache_hits = @ + 1, !.g.hits = @ + 1]

\* _handle_conditional_request up to its request
HandleConditionalRequest(s, url) ==
    LET cached_response == s.c[GetCacheKey(s.o, url)]
        headers == [if_none_match |-> cached_response.etag,
                    if_modified_since |-> cached_response.lastmod]
    IN  BeginRequest([s EXCEPT !.f.cached_response = cached_response],
                     "conditional", "GET", headers)

\* _handle_docker_content_digest up to its HEAD request
HandleDockerContentDigest(s, url) ==
    LET cached_response == s.c[GetCacheKey(s.o, url)]
    IN  BeginRequest([s EXCEPT !.f.cached_response = cached_response],
                     "head", "HEAD", NoHeaders)

\* _get_manifest up to its first request
GetManifest(s) ==
    LET url == ManifestUrl(s.o)
        key == GetCacheKey(s.o, url)
    IN  IF ~s.o.has_response_cache \/ ~CanResponseBeCached(s.o)
        THEN BeginRequest(s, "bypass", "GET", NoHeaders)
        ELSE IF key \in DOMAIN s.c
             THEN IF HandleResponseCacheMethod(s.o.registry) = "_handle_conditional_request"
                  THEN HandleConditionalRequest(s, url)
                  ELSE HandleDockerContentDigest(s, url)
             ELSE BeginRequest(CountMiss(s), "first", "GET", NoHeaders)

\* self.response_cache[key] = rsp; return self.response_cache[key]
StoreAndReturn(s, rsp) ==
    LET key == GetCacheKey(s.o, ManifestUrl(s.o))
        s1 == [s EXCEPT !.c = (key :> rsp) @@ s.c]
    IN  ManifestProperty(s1, s1.c[key])

DigestUnchangedInverted(rsp, cached_response) ==
    rsp.digest # None /\ rsp.digest # cached_response.digest

\* _handle_docker_content_digest: neither miss condition holds
DigestUnchanged(rsp, cached_response) ==
    rsp.digest # None /\ rsp.digest = cached_response.digest

DigestChangedCountsHit(s) == BeginRequest(CountHit(s), "get", "GET", NoHeaders)

\* _handle_docker_content_digest, either miss branch:
\* self.response_cache_misses += 1; return self._do_request(url)
DigestChanged(s) == BeginRequest(CountMiss(s), "get", "GET", NoHeaders)

NotModifiedNever(rsp) == FALSE

\* _handle_conditional_request: rsp.status_code == HTTPStatus.NOT_MODIFIED
IsNotModified(rsp) == rsp.status = NOT_MODIFIED

(***************************************************************************)
(* Image._get_tags and Image.tags                                          *)
(***************************************************************************)
\* no "next" relation among response.links
NoLink == [url |-> None, has_api |-> FALSE]

\* the path of the tags list of o, with its page size
TagsPath(o) ==
    "/v2" \o (IF o.repository # None THEN "/" \o o.repository ELSE "")
          \o "/" \o o.image \o "/tags/list?n=" \o ToString(tags_per_page)

\* url of the first page
TagsUrl(o) == o.registry_api \o TagsPath(o)

\* the next links a response can carry: none, relative to the API base,
\* absolute on the API base, or absolute on another host with the API base
\* in its query (has_api: "self.registry_api in next_page['url']", the url
\* contains self.registry_api)
Links(o) ==
    { NoLink,
      [url |-> TagsPath(o) \o "&last=t", has_api |-> FALSE],
      [url |-> o.registry_api \o TagsPath(o) \o "&last=t", has_api |-> TRUE],
      [url |-> "https://mirror.example.com/tags?of=" \o o.registry_api \o "&last=t",
       has_api |-> TRUE] }

\* the page sizes a registry answers with
PageSizes == {0, 12, tags_per_page, tags_per_page + 1}

\* a 200 response to a tags request: "tags" is null or a list of n names
TagsResponse(null, n, link) ==
    [status |-> 200, digest |-> None, ctype |-> "application/json",
     etag |-> None, lastmod |-> None, body |-> "tags", challenge |-> None,
     owner |-> <<None, None>>, tags_null |-> null, n |-> n, next |-> link]

\* what requests.get on a tags url can produce
TagsOutcomes(o) ==
    { TagsResponse(FALSE, n, l) : n \in PageSizes, l \in Links(o) }
    \cup {TagsResponse(TRUE, 0, NoLink), Challenge, Unauthorized, ServerError, ConnErr}

\* response.json()['tags'] of the p-th page, n names long
Page(p, n) == [j \in 1..n |-> 100 * p + j]

\* the url of the next page: the link itself when it contains the API base,
\* else the API base followed by it
NextUrl(o, link) ==
    IF link.has_api THEN link.url ELSE o.registry_api \o link.url

MorePagesOnlyIfExact(tags, link) == Len(tags) = tags_per_page /\ link # NoLink

\* the loop of _get_tags goes on: "while not len(tags) < tags_per_page" and
\* "if next_page is None: break"
MorePages(tags, link) == ~(Len(tags) < tags_per_page) /\ link # NoLink

\* a call of _do_request for a page of tags
BeginTagsRequest(s, url) ==
    LET s1 == BeginRequest([s EXCEPT !.f.url = url], "tags", "GET", NoHeaders)
    IN  [s1 EXCEPT !.g.get_requests = IF @ > MaxPages THEN MaxPages + 1 ELSE @]

\* Image.tags, an exception leaves _get_tags: "except HTTPError:
\* self._cache_tags = []", anything else leaves the property
TagsExcept(s, exc) ==
    IF exc = "HTTPError"
    THEN Finish([s EXCEPT !.o.cache_tags = [memoized |-> TRUE, list |-> << >>],
                          !.g.fetch = "swallowed"], "value", << >>)
    ELSE Finish([s EXCEPT !.g.fetch = "raised"], exc, None)

\* Image.tags, _get_tags returned: self._cache_tags = all_tags
TagsReturn(s, all_tags) ==
    Finish([s EXCEPT !.o.cache_tags = [memoized |-> TRUE, list |-> all_tags],
                     !.g.fetch = "returned"], "value", all_tags)

\* _get_tags, _do_request returned the page rsp
TagsPage(s, rsp) ==
    IF rsp.tags_null
    THEN TagsExcept(s, "TypeError")
    ELSE LET p == s.g.get_requests
             tags == Page(p, rsp.n)
             all_tags == IF p = 1 THEN tags
                         ELSE IF p > MaxPages THEN s.f.all_tags
                         ELSE s.f.all_tags \o tags
             s1 == [s EXCEPT !.f.all_tags = all_tags,
                             !.g.pages = IF p > MaxPages THEN @
                                         ELSE Append(@, [n |-> rsp.n,
                                                         next |-> rsp.next # NoLink])]
         IN  IF MorePages(tags, rsp.next)
             THEN BeginTagsRequest(s1, NextUrl(s.o, rsp.next))
             ELSE TagsReturn(s1, all_tags)

\* _do_request returned rsp to the branch of _get_manifest that called it
Deliver(s, rsp) ==
    CASE s.f.stage = "tags" -> TagsPage(s, rsp)
      [] s.f.stage = "bypass" -> ManifestProperty([s EXCEPT !.g.get_rsp = rsp], rsp)
      [] s.f.stage = "first" -> StoreAndReturn([s EXCEPT !.g.get_rsp = rsp], rsp)
      [] s.f.stage = "get" -> StoreAndReturn([s EXCEPT !.g.get_rsp = rsp], rsp)
      [] s.f.stage = "conditional" ->
            IF IsNotModified(rsp)
            THEN StoreAndReturn(CountHit([s EXCEPT !.g.get_rsp = rsp]),
                                s.f.cached_response)
            ELSE StoreAndReturn(CountMiss([s EXCEPT !.g.get_rsp = rsp]), rsp)
      [] s.f.stage = "head" ->
            IF DigestUnchanged(rsp, s.f.cached_response)
            THEN StoreAndReturn(CountHit([s EXCEPT !.g.head_digest = rsp.digest]),
                                s.f.cached_response)
            ELSE DigestChanged([s EXCEPT !.g.head_digest = rsp.digest])

(***************************************************************************)
(* sretoolbox.utils.retry around _do_request                               *)
(***************************************************************************)
RetryGivesUpOneLate(attempt) == attempt > max_attempts

\* "if attempt > max_attempts - 1: raise"
RetryGivesUp(attempt) == attempt > max_attempts - 1

SleepForOne(attempt) == 1

\* time.sleep(attempt)
SleepFor(attempt) == attempt

\* @retry(exceptions=(HTTPError, requests.ConnectionError), ...)
exceptions == {"HTTPError", "ConnectionError"}

PropagateForgetting(s, exc) ==
    IF s.f.stage = "tags"
    THEN TagsExcept(s, exc)
    ELSE Finish([s EXCEPT !.g.fetch = "raised", !.c = << >>], exc, None)

\* exc leaves _do_request, towards the caller of the property or, in tags,
\* towards the except clause
Propagate(s, exc) ==
    IF s.f.stage = "tags"
    THEN TagsExcept(s, exc)
    ELSE Finish([s EXCEPT !.g.fetch = "raised"], exc, None)

\* the function body of _do_request raised exc: the decorator lets it pass
\* (not one of exceptions), re-raises it (last attempt) or goes to sleep
Raise(s, exc) ==
    IF exc \notin exceptions \/ RetryGivesUp(s.f.attempt)
    THEN Propagate(s, exc)
    ELSE [s EXCEPT !.f.pc = "sleep", !.f.exception = exc]

\* time.sleep(attempt) is over: the loop enters the next attempt
WakeUp(s) ==
    [s EXCEPT !.f.pc = "send", !.f.attempt = @ + 1, !.f.exception = None,
              !.f.scheme = None,
              !.g.delays = Append(@, SleepFor(s.f.attempt)),
              !.g.last_request = NoRequest,
              !.g.calls = 0, !.g.negs = 0, !.g.first = -1, !.g.second = -1,
              !.g.realm = << >>, !.g.challenge = None]

\* the function body of _do_request returned rsp
Return(s, rsp) == Deliver(s, rsp)

(***************************************************************************)
(* Image._do_request and Image._get_auth: one HTTP exchange per step       *)
(***************************************************************************)
FirstAuthWithToken(o) == o.auth

\* the auth argument of the first call: "if self.auth_token: auth = None"
FirstAuth(o) == IF o.auth_token # None THEN NoAuth ELSE o.auth

\* the first call of an attempt and the handling of its outcome
SendFirst(s, out) ==
    LET req == [to |-> "registry", method |-> s.f.method, basic |-> FirstAuth(s.o),
                bearer |-> s.o.auth_token, held |-> s.o.auth_token,
                headers |-> s.f.headers]
        s1 == [s EXCEPT !.g.last_request = req, !.g.calls = 1,
                        !.g.first = out.status,
                        !.g.challenge = IF out = ConnErr THEN None ELSE out.challenge]
    IN  IF out = ConnErr
        THEN Raise(s1, "ConnectionError")
        ELSE IF out.status = UNAUTHORIZED
             THEN IF out.challenge = None
                  THEN Raise(s1, "HTTPError")
                  ELSE [s1 EXCEPT !.f.pc = "get_auth", !.f.scheme = out.challenge,
                                  !.g.negs = 1]
             ELSE IF RaisesForStatus(out.status)
                  THEN Raise(s1, "HTTPError")
                  ELSE Return(s1, [out EXCEPT !.owner = <<s.o.username, s.o.password>>])

AuthStringWithoutScheme(scheme, data) == data

\* f'{scheme} {data}'
AuthString(scheme, data) == scheme \o " " \o data

NegotiatedNotStored(s, data) ==
    IF data = None
    THEN Raise(s, "KeyError")
    ELSE [s EXCEPT !.f.pc = "resend"]

\* the end of _get_auth, data = response.json()["token"], and its return:
\* self.auth_token = self._get_auth(www_auth), and on to the second call
Negotiated(s, data) ==
    IF data = None
    THEN Raise(s, "KeyError")
    ELSE [s EXCEPT !.o.auth_token = AuthString(s.f.scheme, data),
                   !.f.pc = "resend"]

\* _get_auth: requests.get(url, auth=self.auth) and the handling of its outcome
GetAuthFirst(s, out) ==
    LET req == [to |-> "realm", method |-> "GET", basic |-> s.o.auth,
                bearer |-> None, held |-> s.o.auth_token, headers |-> NoHeaders]
        s1 == [s EXCEPT !.g.last_request = req, !.g.realm = Append(@, out.status)]
    IN  IF out.status = 0
        THEN Raise(s1, "ConnectionError")
        ELSE IF out.status = UNAUTHORIZED
             THEN [s1 EXCEPT !.f.pc = "get_auth_anon"]
             ELSE IF RaisesForStatus(out.status)
                  THEN Raise(s1, "HTTPError")
                  ELSE Negotiated(s1, out.token)

GetAuthAnonymousUnchecked(s, out) ==
    LET req == [to |-> "realm", method |-> "GET", basic |-> NoAuth,
                bearer |-> None, held |-> s.o.auth_token, headers |-> NoHeaders]
        s1 == [s EXCEPT !.g.last_request = req, !.g.realm = Append(@, out.status)]
    IN  IF out.status = 0
        THEN Raise(s1, "ConnectionError")
        ELSE Negotiated(s1, out.token)

\* _get_auth: "Try again without auth", requests.get(url)
GetAuthAnonymous(s, out) ==
    LET req == [to |-> "realm", method |-> "GET", basic |-> NoAuth,
                bearer |-> None, held |-> s.o.auth_token, headers |-> NoHeaders]
        s1 == [s EXCEPT !.g.last_request = req, !.g.realm = Append(@, out.status)]
    IN  IF out.status = 0
        THEN Raise(s1, "ConnectionError")
        ELSE IF RaisesForStatus(out.status)
             THEN Raise(s1, "HTTPError")
             ELSE Negotiated(s1, out.token)

\* "Try again, with the new Authorization header": method(url, headers=...)
SendAgain(s, out) ==
    LET req == [to |-> "registry", method |-> s.f.method, basic |-> NoAuth,
                bearer |-> s.o.auth_token, held |-> s.o.auth_token,
                headers |-> s.f.headers]
        s1 == [s EXCEPT !.g.last_request = req, !.g.calls = 2,
                        !.g.second = out.status]
    IN  IF out = ConnErr
        THEN Raise(s1, "ConnectionError")
        ELSE IF RaisesForStatus(out.status)
             THEN Raise(s1, "HTTPError")
             ELSE Return(s1, [out EXCEPT !.owner = <<s.o.username, s.o.password>>])

(***************************************************************************)
(* Actions.                                                                *)
(***************************************************************************)
Commit(i, s) ==
    /\ img' = [img EXCEPT ![i] = s.o]
    /\ frame' = [frame EXCEPT ![i] = s.f]
    /\ obs' = [obs EXCEPT ![i] = s.g]
    /\ response_cache' = s.c

Properties == {"manifest", "content_type", "digest"}

\* the property finds nothing to return and the manifest is not memoized
NeedsFetch(o, prop) ==
    /\ o.cache_manifest = None
    /\ \/ prop = "manifest"
       \/ prop = "content_type" /\ o.cache_content_type = None
       \/ prop = "digest" /\ o.cache_digest = None

\* history of a new access
NewAccess(i) ==
    [Machine(i) EXCEPT !.g = [FreshObs EXCEPT !.fetched = obs[i].fetched]]

\* an access to manifest, content_type or digest that goes to _get_manifest
AccessFetch(i, prop) ==
    /\ frame[i].pc = "idle"
    /\ NeedsFetch(img[i], prop)
    /\ img[i].has_response_cache =>
           img[i].response_cache_hits + img[i].response_cache_misses < MaxCount
    /\ Commit(i, GetManifest([NewAccess(i) EXCEPT !.f.prop = prop,
                                                  !.g.fetch = "running"]))

\* an access answered from the memoized values
AccessMemoized(i, prop) ==
    /\ frame[i].pc = "idle"
    /\ ~NeedsFetch(img[i], prop)
    /\ Commit(i, FinishAccess(NewAccess(i), prop))

Send(i) ==
    /\ frame[i].pc = "send"
    /\ \E out \in RegistryOutcomes : Commit(i, SendFirst(Machine(i), out))

GetAuth(i) ==
    /\ frame[i].pc = "get_auth"
    /\ \E out \in RealmOutcomes : Commit(i, GetAuthFirst(Machine(i), out))

GetAuthAnon(i) ==
    /\ frame[i].pc = "get_auth_anon"
    /\ \E out \in RealmOutcomes : Commit(i, GetAuthAnonymous(Machine(i), out))

Resend(i) ==
    /\ frame[i].pc = "resend"
    /\ \E out \in RegistryOutcomes : Commit(i, SendAgain(Machine(i), out))

Sleep(i) ==
    /\ frame[i].pc = "sleep"
    /\ Commit(i, WakeUp(Machine(i)))

\* the caller constructs another Image for the same reference, out of family
Construct(i, family) ==
    /\ frame[i].pc = "idle"
    /\ \E o \in family :
          /\ img' = [img EXCEPT ![i] = o]
          /\ obs' = [obs EXCEPT ![i] = FreshObs]
    /\ UNCHANGED <<frame, response_cache>>

Step(i) ==
    \/ \E prop \in Properties : AccessFetch(i, prop)
    \/ \E prop \in Properties : AccessMemoized(i, prop)
    \/ Send(i)
    \/ GetAuth(i)
    \/ GetAuthAnon(i)
    \/ Resend(i)
    \/ Sleep(i)

(***************************************************************************)
(* Spec: Images with and without a shared response cache, on a registry    *)
(* of each cache strategy and on one without.                              *)
(***************************************************************************)
Init ==
    /\ img \in [Img -> UNION { CacheImages(r) : r \in Registries }]
    /\ frame = [i \in Img |-> IdleFrame]
    /\ obs = [i \in Img |-> FreshObs]
    /\ response_cache = << >>

Next ==
    \E i \in Img :
        \/ Step(i)
        \/ Construct(i, CacheImages(img[i].registry))

Spec == Init /\ [][Next]_vars

(***************************************************************************)
(* SpecRequest: one Image without response cache, with every combination   *)
(* of credentials, auth_server and constructor token.                      *)
(***************************************************************************)
InitRequest ==
    /\ img \in [Img -> UNION { RequestImages(r) : r \in Registries }]
    /\ frame = [i \in Img |-> IdleFrame]
    /\ obs = [i \in Img |-> FreshObs]
    /\ response_cache = << >>

NextRequest ==
    \E i \in Img :
        \/ Step(i)
        \/ Construct(i, RequestImages(img[i].registry))

SpecRequest == InitRequest /\ [][NextRequest]_vars

(***************************************************************************)
(* SpecCredentials: Images of differing credentials sharing one response   *)
(* cache, on the registries that have a cache strategy.                    *)
(***************************************************************************)
InitCredentials ==
    /\ img \in [Img -> UNION { CredentialImages(r) :
                                r \in {r \in Registries : HandleResponseCacheMethod(r) # None} }]
    /\ frame = [i \in Img |-> IdleFrame]
    /\ obs = [i \in Img |-> FreshObs]
    /\ response_cache = << >>

NextCredentials ==
    \E i \in Img :
        \/ Step(i)
        \/ Construct(i, CredentialImages(img[i].registry))

SpecCredentials == InitCredentials /\ [][NextCredentials]_vars

(***************************************************************************)
(* SpecTags: Images whose tags are listed.  The steps of a listing are     *)
(* taken as long as one is possible, and the registry answers every        *)
(* request.                                                                *)
(***************************************************************************)
TagImages(reg) == { NewImage(reg, None, None, None, FALSE, None) }

\* Image.tags with nothing memoized: _get_tags and its first request
AccessTags(i) ==
    /\ frame[i].pc = "idle"
    /\ ~img[i].cache_tags.memoized
    /\ Commit(i, BeginTagsRequest([NewAccess(i) EXCEPT !.f.prop = "tags",
                                                      !.g.fetch = "running"],
                                  TagsUrl(img[i])))

\* Image.tags answered from _cache_tags
AccessTagsMemoized(i) ==
    /\ frame[i].pc = "idle"
    /\ img[i].cache_tags.memoized
    /\ Commit(i, Finish(NewAccess(i), "value", img[i].cache_tags.list))

SendTags(i) ==
    /\ frame[i].pc = "send"
    /\ \E out \in TagsOutcomes(img[i]) : Commit(i, SendFirst(Machine(i), out))

ResendTags(i) ==
    /\ frame[i].pc = "resend"
    /\ \E out \in TagsOutcomes(img[i]) : Commit(i, SendAgain(Machine(i), out))

InitTags ==
    /\ img \in [Img -> UNION { TagImages(r) : r \in {"docker.io", "registry.example.com"} }]
    /\ frame = [i \in Img |-> IdleFrame]
    /\ obs = [i \in Img |-> FreshObs]
    /\ response_cache = << >>

NextTags ==
    \E i \in Img :
        \/ AccessTags(i)
        \/ AccessTagsMemoized(i)
        \/ SendTags(i)
        \/ GetAuth(i)
        \/ GetAuthAnon(i)
        \/ ResendTags(i)
        \/ Sleep(i)
        \/ Construct(i, TagImages(img[i].registry))

SpecTags == InitTags /\ [][NextTags]_vars /\ WF_vars(NextTags)

(***************************************************************************)
(* SpecCompare: two Images and the operations that read their manifests:   *)
(* a == b, bool(a) and a.is_part_of(b).  An operation is one step; the     *)
(* outcome of each manifest fetch it makes is what _get_manifest can give: *)
(* a response of status < 400, HTTPError, or the ConnectionError the retry *)
(* decorator lets through after its last attempt.                          *)
(***************************************************************************)
Pair == {1, 2}

SCHEMA1_MANIFEST_MEDIA_TYPE == "application/vnd.docker.distribution.manifest.v1+json"
SCHEMA1_SIGNED_MANIFEST_MEDIA_TYPE == "application/vnd.docker.distribution.manifest.v1+prettyjws"
SCHEMA2_MANIFEST_LIST_MEDIA_TYPE == "application/vnd.docker.distribution.manifest.list.v2+json"
OCI_MANIFEST_MEDIA_TYPE == "application/vnd.oci.image.manifest.v1+json"
OCI_IMAGE_INDEX_MEDIA_TYPE == "application/vnd.oci.image.index.v1+json"

SINGLE_ARCH_MEDIA_TYPES == {SCHEMA2_MANIFEST_MEDIA_TYPE, OCI_MANIFEST_MEDIA_TYPE}
MULTI_ARCH_MEDIA_TYPES == {SCHEMA2_MANIFEST_LIST_MEDIA_TYPE, OCI_IMAGE_INDEX_MEDIA_TYPE}

\* a JSON object: the keys it has and the values under them (fsLayers and
\* layers are lists of blobs, manifests is the list of its entries' digests)
Doc(keys, version, fsLayers, layers, manifests) ==
    [keys |-> keys, schemaVersion |-> version, fsLayers |-> fsLayers,
     layers |-> layers, manifests |-> manifests]

\* the object a manifest body parses to
Document(text) ==
    CASE text = "{schemaVersion: 1, fsLayers: [l1]}" ->
            Doc({"schemaVersion", "fsLayers"}, 1, <<"l1">>, << >>, << >>)
      [] text = "{schemaVersion: 1, fsLayers: [l1, l2]}" ->
            Doc({"schemaVersion", "fsLayers"}, 1, <<"l1", "l2">>, << >>, << >>)
      [] text = "{schemaVersion: 2, layers: [l1]}" ->
            Doc({"schemaVersion", "layers"}, 2, << >>, <<"l1">>, << >>)
      [] text = "{schemaVersion: 2, layers: [l2]}" ->
            Doc({"schemaVersion", "layers"}, 2, << >>, <<"l2">>, << >>)
      [] text = "{schemaVersion: 2, manifests: [sha256:a]}" ->
            Doc({"schemaVersion", "manifests"}, 2, << >>, << >>, <<"sha256:a">>)
      [] text = "{schemaVersion: 2, manifests: [sha256:b, sha256:c]}" ->
            Doc({"schemaVersion", "manifests"}, 2, << >>, << >>,
                <<"sha256:b", "sha256:c">>)
      [] OTHER -> Doc({}, 0, << >>, << >>, << >>)

ManifestResponse(dg, ct, bd) == Response(200, dg, ct, None, None, bd, None)

\* The manifest responses of the registry: manifests of schema 1 and 2,
\* single-arch and multi-arch, under every content type the code tells
\* apart, with and without the two headers, the documents {} and null, and
\* documents that lack the key their content type announces.
ManifestResponses ==
    { ManifestResponse("sha256:a", SCHEMA2_MANIFEST_MEDIA_TYPE, "{schemaVersion: 2, layers: [l1]}"),
      ManifestResponse("sha256:b", SCHEMA2_MANIFEST_MEDIA_TYPE, "{schemaVersion: 2, layers: [l2]}"),
      ManifestResponse("sha256:a", OCI_MANIFEST_MEDIA_TYPE, "{schemaVersion: 2, layers: [l1]}"),
      ManifestResponse(None, SCHEMA2_MANIFEST_MEDIA_TYPE, "{schemaVersion: 2, layers: [l1]}"),
      ManifestResponse("sha256:d", SCHEMA2_MANIFEST_LIST_MEDIA_TYPE, "{schemaVersion: 2, manifests: [sha256:a]}"),
      ManifestResponse("sha256:e", SCHEMA2_MANIFEST_LIST_MEDIA_TYPE, "{schemaVersion: 2, manifests: [sha256:b, sha256:c]}"),
      ManifestResponse("sha256:d", OCI_IMAGE_INDEX_MEDIA_TYPE, "{schemaVersion: 2, manifests: [sha256:a]}"),
      ManifestResponse("sha256:f", SCHEMA1_MANIFEST_MEDIA_TYPE, "{schemaVersion: 1, fsLayers: [l1]}"),
      ManifestResponse("sha256:f", SCHEMA1_SIGNED_MANIFEST_MEDIA_TYPE, "{schemaVersion: 1, fsLayers: [l1]}"),
      ManifestResponse("sha256:g", SCHEMA1_MANIFEST_MEDIA_TYPE, "{schemaVersion: 1, fsLayers: [l1, l2]}"),
      ManifestResponse("sha256:a", None, "{schemaVersion: 2, layers: [l1]}"),
      ManifestResponse("sha256:a", "text/plain", "{schemaVersion: 2, layers: [l1]}"),
      ManifestResponse("sha256:a", SCHEMA2_MANIFEST_MEDIA_TYPE, "{}"),
      ManifestResponse("sha256:a", SCHEMA2_MANIFEST_MEDIA_TYPE, "null"),
      ManifestResponse("sha256:d", SCHEMA2_MANIFEST_MEDIA_TYPE, "{schemaVersion: 2, manifests: [sha256:a]}"),
      ManifestResponse("sha256:a", SCHEMA2_MANIFEST_LIST_MEDIA_TYPE, "{schemaVersion: 2, layers: [l1]}") }

\* what a call of _get_manifest ends with: a response, or an exception
ManifestOutcomes ==
    { [exc |-> None, rsp |-> r] : r \in ManifestResponses }
    \cup { [exc |-> e, rsp |-> NoResponse] : e \in exceptions }

\* The state of a running operation: the objects, what the last property
\* access ended with ("ok" or the exception it raised) and the value it
\* returned where that is a string (as tokens, see SpecReference); outcomes
\* is what the registry can answer to a manifest fetch.  History: failed is
\* the exception a manifest fetch of this operation raised, fetches the
\* number of calls of _get_manifest.
Running(p, outcomes) ==
    [p |-> p, r |-> "ok", value |-> << >>, outcomes |-> outcomes,
     failed |-> None, fetches |-> 0]

\* then(S, f): every run of S that is "ok" continues with f, an exception
\* ends the operation
Then(S, f(_)) == UNION { IF x.r = "ok" THEN f(x) ELSE {x} : x \in S }

\* the manifest property of p[i]
Manifest(x, i) ==
    IF x.p[i].cache_manifest # None
    THEN {x}
    ELSE { IF out.exc # None
           THEN [x EXCEPT !.r = out.exc, !.failed = out.exc, !.fetches = @ + 1]
           ELSE [x EXCEPT !.p[i].cache_manifest = Json(out.rsp.body),
                          !.p[i].cache_content_type = out.rsp.ctype,
                          !.p[i].cache_digest = out.rsp.digest,
                          !.fetches = @ + 1]
           : out \in x.outcomes }

\* the content_type property of p[i]
ContentType(x, i) ==
    Then(IF x.p[i].cache_content_type = None THEN Manifest(x, i) ELSE {x},
         LAMBDA y : { IF y.p[i].cache_content_type = None
                      THEN [y EXCEPT !.r = "HTTPError"] ELSE y })

\* the digest property of p[i]
Digest(x, i) ==
    Then(IF x.p[i].cache_digest = None THEN Manifest(x, i) ELSE {x},
         LAMBDA y : { IF y.p[i].cache_digest = None
                      THEN [y EXCEPT !.r = "HTTPError"] ELSE y })

\* manifest[key] of Python: what it raises, or "ok"
Subscript(manifest, key) ==
    IF manifest = None THEN "TypeError"
    ELSE IF key \notin Document(manifest).keys THEN "KeyError"
    ELSE "ok"

\* bool(b) of Python, rendered
PyBool(b) == IF b THEN "True" ELSE "False"

\* the end of __eq__: manifest[layers_key] == other_manifest[layers_key]
EqLayers(x, i, j, layers_key) ==
    LET manifest == x.p[i].cache_manifest
        other_manifest == x.p[j].cache_manifest
    IN  IF Subscript(manifest, layers_key) # "ok"
        THEN [x EXCEPT !.r = Subscript(manifest, layers_key)]
        ELSE IF Subscript(other_manifest, layers_key) # "ok"
        THEN [x EXCEPT !.r = Subscript(other_manifest, layers_key)]
        ELSE [x EXCEPT !.r = PyBool(Document(manifest)[layers_key]
                                      = Document(other_manifest)[layers_key])]

LayersKeyAlwaysLayers(content_type) ==
    IF content_type \in SINGLE_ARCH_MEDIA_TYPES \cup MULTI_ARCH_MEDIA_TYPES
    THEN "layers" ELSE None

\* __eq__: the key compared under a content type of schema version 2
LayersKey(content_type) ==
    IF content_type \in SINGLE_ARCH_MEDIA_TYPES THEN "layers"
    ELSE IF content_type \in MULTI_ARCH_MEDIA_TYPES THEN "manifests"
    ELSE None

\* __eq__ from "manifest_version = manifest['schemaVersion']" on
EqVersions(x, i, j) ==
    LET manifest == x.p[i].cache_manifest
        other_manifest == x.p[j].cache_manifest
    IN  IF Subscript(manifest, "schemaVersion") # "ok"
        THEN {[x EXCEPT !.r = Subscript(manifest, "schemaVersion")]}
        ELSE IF Subscript(other_manifest, "schemaVersion") # "ok"
        THEN {[x EXCEPT !.r = Subscript(other_manifest, "schemaVersion")]}
        ELSE IF Document(manifest).schemaVersion
                   # Document(other_manifest).schemaVersion
        THEN {[x EXCEPT !.r = "False"]}
        ELSE IF Document(manifest).schemaVersion = 1
        THEN {EqLayers(x, i, j, "fsLayers")}
        ELSE Then(ContentType(x, i), LAMBDA y :
             Then(ContentType(y, j), LAMBDA z :
                LET manifest_content_type == z.p[i].cache_content_type
                IN  IF manifest_content_type # z.p[j].cache_content_type
                    THEN {[z EXCEPT !.r = "False"]}
                    ELSE IF LayersKey(manifest_content_type) = None
                    THEN {[z EXCEPT !.r = "ImageComparisonError"]}
                    ELSE {EqLayers(z, i, j, LayersKey(manifest_content_type))}))

\* the except clause of __eq__ around the two accesses to manifest
EqExcept(x) ==
    IF x.r = "HTTPError" THEN [x EXCEPT !.r = "ImageComparisonError"] ELSE x

\* p[i] == p[j]
Eq(p, i, j) ==
    UNION { IF y.r # "ok" THEN {EqExcept(y)} ELSE EqVersions(y, i, j)
            : y \in Then(Manifest(Running(p, ManifestOutcomes), i), LAMBDA x : Manifest(x, j)) }

BoolOfAnyDocument(manifest) == manifest # None

\* bool(manifest) of Python: None and the empty object are false
BoolOf(manifest) == manifest # None /\ Document(manifest).keys # {}

\* bool(p[i])
Bool(p, i) ==
    { IF x.r = "HTTPError" THEN [x EXCEPT !.r = "False"]
      ELSE IF x.r # "ok" THEN x
      ELSE [x EXCEPT !.r = PyBool(BoolOf(x.p[i].cache_manifest))]
      : x \in Manifest(Running(p, ManifestOutcomes), i) }

\* the loop of is_part_of over other.manifest['manifests']: self.digest is
\* read once for each entry up to the first that has it
RECURSIVE PartOfLoop(_, _, _, _)
PartOfLoop(x, i, manifests, k) ==
    IF k > Len(manifests)
    THEN {[x EXCEPT !.r = "False"]}
    ELSE Then(Digest(x, i), LAMBDA y :
            IF manifests[k] = y.p[i].cache_digest
            THEN {[y EXCEPT !.r = "True"]}
            ELSE PartOfLoop(y, i, manifests, k + 1))

IsPartOfUnchecked(p, i, j) ==
    Then(ContentType(Running(p, ManifestOutcomes), i), LAMBDA x :
    Then(ContentType(x, j), LAMBDA y :
    Then(Manifest(y, j), LAMBDA z :
        LET manifest == z.p[j].cache_manifest
        IN  IF Subscript(manifest, "manifests") # "ok"
            THEN {[z EXCEPT !.r = Subscript(manifest, "manifests")]}
            ELSE PartOfLoop(z, i, Document(manifest).manifests, 1))))

\* p[i].is_part_of(p[j])
IsPartOf(p, i, j) ==
    Then(ContentType(Running(p, ManifestOutcomes), i), LAMBDA x :
        IF x.p[i].cache_content_type \notin SINGLE_ARCH_MEDIA_TYPES
        THEN {[x EXCEPT !.r = "ImageContainsError"]}
        ELSE
    Then(ContentType(x, j), LAMBDA y :
        IF y.p[j].cache_content_type \notin MULTI_ARCH_MEDIA_TYPES
        THEN {[y EXCEPT !.r = "ImageContainsError"]}
        ELSE
    Then(Manifest(y, j), LAMBDA z :
        LET manifest == z.p[j].cache_manifest
        IN  IF Subscript(manifest, "manifests") # "ok"
            THEN {[z EXCEPT !.r = Subscript(manifest, "manifests")]}
            ELSE PartOfLoop(z, i, Document(manifest).manifests, 1))))

\* history of SpecCompare: the last operation, its operands and its outcome
NoOperation == [op |-> None, self |-> 0, other |-> 0, r |-> None, failed |-> None]

\* the operation ends as run x
Operation(op, i, j, x) ==
    /\ img' = x.p
    /\ obs' = [op |-> op, self |-> i, other |-> j, r |-> x.r, failed |-> x.failed]
    /\ UNCHANGED <<frame, response_cache>>

Equals(i, j) == \E x \in Eq(img, i, j) : Operation("__eq__", i, j, x)

Truth(i) == \E x \in Bool(img, i) : Operation("__bool__", i, 0, x)

PartOf(i, j) == \E x \in IsPartOf(img, i, j) : Operation("is_part_of", i, j, x)

\* the caller constructs another Image in slot i
ConstructOperand(i) ==
    /\ \E o \in TagImages(img[i].registry) : img' = [img EXCEPT ![i] = o]
    /\ obs' = NoOperation
    /\ UNCHANGED <<frame, response_cache>>

InitCompare ==
    /\ img \in [Pair -> TagImages("registry.example.com")]
    /\ frame = [i \in Pair |-> IdleFrame]
    /\ obs = NoOperation
    /\ response_cache = << >>

NextCompare ==
    \E i \in Pair :
        \/ \E j \in Pair \ {i} : Equals(i, j)
        \/ Truth(i)
        \/ \E j \in Pair \ {i} : PartOf(i, j)
        \/ ConstructOperand(i)

SpecCompare == InitCompare /\ [][NextCompare]_vars

(***************************************************************************)
(* SpecReference: Images constructed from reference strings, with and      *)
(* without tag override, and by indexing.  A string is the sequence of its *)
(* tokens: the separators ":", "/" and "@", and between them the maximal   *)
(* runs of the characters [\w\-.].  The runs used begin with a word        *)
(* character and those before "://" have word characters only, so that a   *)
(* match of the regular expression begins where a run begins.              *)
(***************************************************************************)
\* two strings of 64 lowercase hexadecimal digits
Hex64 == { "0123456789abcdef0123456789abcdef0123456789abcdef0123456789abcdef",
           "ffffffffffffffffffffffffffffffffffffffffffffffffffffffffffffffff" }

\* the one that occurs in the references of the caller
ReferenceHex == "0123456789abcdef0123456789abcdef0123456789abcdef0123456789abcdef"

\* the runs of [\w\-.] that occur, by the character classes of the regular
\* expression of _parse_image_url
DottedRuns == {"quay.io", "docker.io"}
HyphenRuns == {"app-sre"}
DigitRuns == {"5000"}
PlainRuns ==
    {"docker", "https", "localhost", "tool", "library", "latest", "v1", "v2",
     "sha256"} \cup Hex64

\* None where a string is expected, and the empty list of tokens
NoTokens == << >>

\* the string of a sequence of tokens
RECURSIVE Text(_)
Text(tokens) ==
    IF tokens = << >> THEN "" ELSE Head(tokens) \o Text(Tail(tokens))

\* token t matches the part of the regular expression named class
Fits(t, class) ==
    CASE class = "scheme" -> t \in PlainRuns \cup DigitRuns
      [] class = "registry" -> t \in DottedRuns
      [] class = "port" -> t \in DigitRuns
      [] class = "repository" -> t \in PlainRuns \cup DigitRuns \cup HyphenRuns
      [] class \in {"image", "tag"} ->
            t \in PlainRuns \cup DigitRuns \cup HyphenRuns \cup DottedRuns
      [] class = "hex" -> t \in Hex64
      [] OTHER -> t = class

\* which of the optional groups a match takes (a port only after a registry,
\* a tag only without a digest)
Shapes ==
    { sh \in [{"scheme", "registry", "port", "repository", "digest", "tag"} -> BOOLEAN] :
         /\ sh["port"] => sh["registry"]
         /\ ~(sh["digest"] /\ sh["tag"]) }

\* the regular expression with the groups of sh taken
Pattern(sh) ==
    (IF sh["scheme"] THEN <<"scheme", ":", "/", "/">> ELSE << >>)
    \o (IF sh["registry"]
        THEN <<"registry">> \o (IF sh["port"] THEN <<":", "port">> ELSE << >>)
                            \o <<"/">>
        ELSE << >>)
    \o (IF sh["repository"] THEN <<"repository", "/">> ELSE << >>)
    \o <<"image">>
    \o (IF sh["digest"] THEN <<"@", "sha256", ":", "hex">> ELSE << >>)
    \o (IF sh["tag"] THEN <<":", "tag">> ELSE << >>)

\* the patterns of all shapes
Patterns == [sh \in Shapes |-> Pattern(sh)]

\* the pattern of sh matches url from token k up to the end ("$")
Matches(url, k, pattern) ==
    /\ Len(url) - k + 1 = Len(pattern)
    /\ \A n \in 1..Len(pattern) : Fits(url[k + n - 1], pattern[n])

\* the order in which the regular expression tries the optional groups: each
\* is tried present before absent, the leftmost group deciding first
Rank(sh) ==
    LET bit(g, w) == IF sh[g] THEN w ELSE 0
    IN  bit("scheme", 32) + bit("registry", 16) + bit("port", 8)
          + bit("repository", 4) + bit("digest", 2) + bit("tag", 1)

ImageUrlStructLibraryAnywhere(url, k, sh, pattern) ==
    LET group(class) ==
            url[k - 1 + CHOOSE n \in 1..Len(pattern) : pattern[n] = class]
        registry ==
            (IF sh["registry"] THEN <<group("registry")>> ELSE <<"docker.io">>)
            \o (IF sh["port"] THEN <<":", group("port")>> ELSE << >>)
    IN  [ok |-> TRUE,
         scheme |-> IF sh["scheme"] THEN <<group("scheme"), ":", "/", "/">>
                    ELSE <<"docker", ":", "/", "/">>,
         registry |-> registry,
         repository |-> IF sh["repository"] THEN <<group("repository")>>
                        ELSE <<"library">>,
         image |-> <<group("image")>>,
         tag |-> IF sh["tag"] THEN <<group("tag")>>
                 ELSE IF ~sh["digest"] THEN <<"latest">>
                 ELSE NoTokens,
         digest |-> IF sh["digest"] THEN <<"sha256", ":", group("hex")>>
                    ELSE NoTokens]

\* image_url_struct of the match of sh from token k, the defaults filled in
ImageUrlStruct(url, k, sh, pattern) ==
    LET group(class) ==
            url[k - 1 + CHOOSE n \in 1..Len(pattern) : pattern[n] = class]
        registry ==
            (IF sh["registry"] THEN <<group("registry")>> ELSE <<"docker.io">>)
            \o (IF sh["port"] THEN <<":", group("port")>> ELSE << >>)
    IN  [ok |-> TRUE,
         scheme |-> IF sh["scheme"] THEN <<group("scheme"), ":", "/", "/">>
                    ELSE <<"docker", ":", "/", "/">>,
         registry |-> registry,
         repository |-> IF sh["repository"] THEN <<group("repository")>>
                        ELSE IF registry = <<"docker.io">> THEN <<"library">>
                        ELSE NoTokens,
         image |-> <<group("image")>>,
         tag |-> IF sh["tag"] THEN <<group("tag")>>
                 ELSE IF ~sh["digest"] THEN <<"latest">>
                 ELSE NoTokens,
         digest |-> IF sh["digest"] THEN <<"sha256", ":", group("hex")>>
                    ELSE NoTokens]

\* the match re.search returns among matches (pairs of a start and a shape):
\* the leftmost, and of those the one tried first
FirstMatch(matches) ==
    CHOOSE m \in matches :
        \A n \in matches :
            m[1] < n[1] \/ (m[1] = n[1] /\ Rank(n[2]) <= Rank(m[2]))

\* _parse_image_url from the result of re.search on; ok is FALSE where it
\* raises AttributeError
ParsedImageUrl(url, matches) ==
    IF matches = {}
    THEN [ok |-> FALSE]
    ELSE ImageUrlStruct(url, FirstMatch(matches)[1], FirstMatch(matches)[2],
                        Patterns[FirstMatch(matches)[2]])

\* _parse_image_url
ParseImageUrl(url) ==
    ParsedImageUrl(url, { m \in (1..Len(url)) \X Shapes :
                             Matches(url, m[1], Patterns[m[2]]) })

\* the keyword arguments of Image.__init__ besides tag_override, at their
\* defaults
NoArguments ==
    [username |-> None, password |-> None, auth_server |-> None,
     response_cache |-> None, auth_token |-> None]

\* what the caller passes for them: nothing, or credentials, an auth server,
\* a response cache (the name stands for the identity of the object) and a
\* token
Arguments ==
    { NoArguments,
      [username |-> "alice", password |-> "pw1", auth_server |-> "quay.io",
       response_cache |-> "cache1", auth_token |-> "Bearer t1"] }

\* Image.__init__ after the url is parsed; reference is history: what the
\* url parsed to
ReferenceImage(image_data, tag_override, kwargs) ==
    [scheme |-> image_data.scheme,
     registry |-> image_data.registry,
     repository |-> image_data.repository,
     image |-> image_data.image,
     tag |-> IF tag_override = NoTokens THEN image_data.tag ELSE tag_override,
     cache_digest |-> IF image_data.digest # NoTokens
                      THEN Text(image_data.digest) ELSE None,
     cache_tags |-> NoTags,
     cache_manifest |-> None,
     cache_content_type |-> None,
     username |-> kwargs.username,
     password |-> kwargs.password,
     auth_server |-> kwargs.auth_server,
     response_cache |-> kwargs.response_cache,
     auth_token |-> kwargs.auth_token,
     reference |-> image_data]

\* the tokens of a digest string
DigestTokens(digest) ==
    <<"sha256", ":", CHOOSE h \in Hex64 : digest = "sha256:" \o h>>

UrlPrefixWithoutRepository(o) ==
    o.registry \o <<"/">> \o o.image

\* "{registry}[/{repository}]/{image}" of url_digest and url_tag
UrlPrefix(o) ==
    o.registry \o (IF o.repository # NoTokens THEN <<"/">> \o o.repository ELSE << >>)
               \o <<"/">> \o o.image

\* the url_digest property of p[i]
UrlDigest(x, i) ==
    Then(Digest(x, i), LAMBDA y :
        {[y EXCEPT !.value = UrlPrefix(y.p[i]) \o <<"@">>
                                \o DigestTokens(y.p[i].cache_digest)]})

\* str(p[i]) where the tag is None
StrByDigest(x, i) ==
    Then(UrlDigest(x, i), LAMBDA y : {[y EXCEPT !.value = y.p[i].scheme \o @]})

\* the url_tag property of p[i]: NoTagForImageByDigest is constructed from
\* str(image)
UrlTag(x, i) ==
    IF x.p[i].tag = NoTokens
    THEN Then(StrByDigest(x, i), LAMBDA y :
            {[y EXCEPT !.r = "NoTagForImageByDigest", !.value = << >>]})
    ELSE {[x EXCEPT !.value = UrlPrefix(x.p[i]) \o <<":">> \o x.p[i].tag]}

\* str(p[i])
Str(x, i) ==
    IF x.p[i].tag = NoTokens
    THEN StrByDigest(x, i)
    ELSE Then(UrlTag(x, i), LAMBDA y : {[y EXCEPT !.value = y.p[i].scheme \o @]})

\* p[j] = p[i][item]
GetItem(x, i, j, item) ==
    Then(Str(x, i), LAMBDA y :
        LET image_data == ParseImageUrl(y.value)
        IN  IF ~image_data.ok
            THEN {[y EXCEPT !.r = "AttributeError"]}
            ELSE {[y EXCEPT !.p[j] =
                     ReferenceImage(image_data, item,
                         [username |-> y.p[i].username,
                          password |-> y.p[i].password,
                          auth_server |-> y.p[i].auth_server,
                          response_cache |-> y.p[i].response_cache,
                          auth_token |-> y.p[i].auth_token])]})

\* the reference strings the caller constructs Images from
Urls ==
    { <<"tool">>,
      <<"quay.io", "/", "app-sre", "/", "tool", ":", "v1">>,
      <<"quay.io", "/", "app-sre", "/", "tool", "@", "sha256", ":", ReferenceHex>>,
      <<"docker", ":", "/", "/", "quay.io", ":", "5000", "/", "tool",
        "@", "sha256", ":", ReferenceHex>>,
      <<"tool", ":">> }

\* the tags the caller overrides with and indexes by
Tags == {<<"v2">>}

DigestOf(h) == "sha256:" \o h

\* what _get_manifest ends with in SpecReference: a manifest whose
\* Docker-Content-Digest is either digest or is absent, the document null,
\* or an exception
ReferenceOutcomes ==
    { [exc |-> None, rsp |-> ManifestResponse(dg, SCHEMA2_MANIFEST_MEDIA_TYPE, bd)] :
         dg \in {DigestOf(h) : h \in Hex64} \cup {None},
         bd \in {"{schemaVersion: 2, layers: [l1]}"} }
    \cup { [exc |-> None, rsp |-> ManifestResponse(None, SCHEMA2_MANIFEST_MEDIA_TYPE, "null")] }
    \cup { [exc |-> e, rsp |-> NoResponse] : e \in exceptions }

\* history of SpecReference: the last operation, the slot it was called on,
\* the slot of the Image it made, and how it ended
Ended(op, i, j, x) ==
    /\ img' = x.p
    /\ obs' = [op |-> op, self |-> i, made |-> j, r |-> x.r, value |-> x.value,
               failed |-> x.failed, fetches |-> x.fetches]
    /\ UNCHANGED <<frame, response_cache>>

\* Image(url, tag_override=...) put in slot i
ConstructReference(i) ==
    \E image_data \in { ParseImageUrl(url) : url \in Urls },
       tag_override \in Tags \cup {NoTokens},
       kwargs \in Arguments :
        IF image_data.ok
        THEN Ended("__init__", 0, i,
                   [Running(img, ReferenceOutcomes)
                       EXCEPT !.p[i] = ReferenceImage(image_data, tag_override, kwargs)])
        ELSE Ended("__init__", 0, 0,
                   [Running(img, ReferenceOutcomes) EXCEPT !.r = "AttributeError"])

Index(i, j) ==
    \E item \in Tags :
        \E x \in GetItem(Running(img, ReferenceOutcomes), i, j, item) :
            Ended("__getitem__", i, IF x.r = "ok" THEN j ELSE 0, x)

ReadManifest(i) ==
    \E x \in Manifest(Running(img, ReferenceOutcomes), i) : Ended("manifest", i, 0, x)

ReadDigest(i) ==
    \E x \in Digest(Running(img, ReferenceOutcomes), i) :
        Ended("digest", i, 0,
              IF x.r = "ok"
              THEN [x EXCEPT !.value = DigestTokens(x.p[i].cache_digest)] ELSE x)

ReadStr(i) ==
    \E x \in Str(Running(img, ReferenceOutcomes), i) : Ended("__str__", i, 0, x)

ReadUrlTag(i) ==
    \E x \in UrlTag(Running(img, ReferenceOutcomes), i) : Ended("url_tag", i, 0, x)

InitReference ==
    /\ img = [i \in Pair |->
                 ReferenceImage(ParseImageUrl(<<"tool">>), NoTokens, NoArguments)]
    /\ frame = [i \in Pair |-> IdleFrame]
    /\ obs = [op |-> None, self |-> 0, made |-> 0, r |-> None, value |-> << >>,
              failed |-> None, fetches |-> 0]
    /\ response_cache = << >>

\* slot 1 holds the Image the caller constructs and reads, slot 2 the Image
\* made by indexing it
NextReference ==
    \/ ConstructReference(1)
    \/ Index(1, 2)
    \/ ReadManifest(1)
    \/ ReadDigest(1)
    \/ ReadStr(1)
    \/ ReadUrlTag(1)

SpecReference == InitReference /\ [][NextReference]_vars

(***************************************************************************)
(* SpecParse: the reference strings the caller writes, parsed by the       *)
(* constructor, rendered by str and parsed again.  A reference is written  *)
(* from four parts; what the parser receives is the string of their        *)
(* tokens.                                                                 *)
(***************************************************************************)
\* the parts a caller writes a reference from: a scheme or none
Schemes == {NoTokens, <<"https", ":", "/", "/">>}

\* a leading segment naming a host (with a dot, with a colon and a port, or
\* with both) or none
Hosts ==
    { NoTokens, <<"quay.io">>, <<"quay.io", ":", "5000">>, <<"docker.io">>,
      <<"docker.io", ":", "5000">>, <<"localhost", ":", "5000">> }

\* a path of one to four segments, or of one segment with a dot
Paths ==
    { <<"tool">>,
      <<"docker.io">>,
      <<"app-sre", "/", "tool">>,
      <<"app-sre", "/", "tool", "/", "v1">>,
      <<"app-sre", "/", "tool", "/", "v1", "/", "v2">> }

\* nothing, a tag, a digest, and endings that are neither: a tag after a
\* digest, a digest that is not 64 hexadecimal digits, a colon without a tag
Ends ==
    { NoTokens,
      <<":", "v1">>,
      <<"@", "sha256", ":", ReferenceHex>>,
      <<"@", "sha256", ":", ReferenceHex, ":", "v1">>,
      <<"@", "sha256", ":", "v1">>,
      <<":">> }

References == [scheme : Schemes, host : Hosts, path : Paths, end : Ends]

\* the string written from parts
ReferenceString(parts) ==
    parts.scheme
      \o (IF parts.host # NoTokens THEN parts.host \o <<"/">> ELSE << >>)
      \o parts.path \o parts.end

\* history of SpecParse: the last operation, the parts of the reference the
\* Image in slot 1 was constructed from, how the operation ended and what
\* it returned
Parsed(op, given, x) ==
    /\ img' = x.p
    /\ obs' = [op |-> op, given |-> given, r |-> x.r, value |-> x.value]
    /\ UNCHANGED <<frame, response_cache>>

\* _parse_image_url of every reference string
ParsedReferences ==
    [url \in {ReferenceString(given) : given \in References} |-> ParseImageUrl(url)]

\* Image(url) put in slot 1; the caller does not go on after an exception
ParseReference ==
    /\ obs.r = "ok"
    /\ \E given \in References :
        \E image_data \in {ParsedReferences[ReferenceString(given)]} :
            IF image_data.ok
            THEN Parsed("__init__", given,
                        [Running(img, {}) EXCEPT
                            !.p[1] = ReferenceImage(image_data, NoTokens, NoArguments)])
            ELSE Parsed("__init__", given,
                        [Running(img, {}) EXCEPT !.r = "AttributeError"])

\* str(image) of the Image in slot 1, right after its construction
RenderReference ==
    /\ obs.op = "__init__"
    /\ obs.r = "ok"
    /\ \E x \in Str(Running(img, {}), 1) : Parsed("__str__", obs.given, x)

\* Image(str(image)), which takes the place of the Image in slot 1
ParseRendered ==
    /\ obs.op = "__str__"
    /\ obs.r = "ok"
    /\ \E image_data \in {ParseImageUrl(obs.value)} :
            IF image_data.ok
            THEN Parsed("parse(str)", obs.given,
                        [Running(img, {}) EXCEPT
                            !.value = obs.value,
                            !.p[1] = ReferenceImage(image_data, NoTokens, NoArguments)])
            ELSE Parsed("parse(str)", obs.given,
                        [Running(img, {}) EXCEPT !.r = "AttributeError",
                                                  !.value = obs.value])

InitParse ==
    /\ img = [i \in Pair |->
                 ReferenceImage(ParseImageUrl(<<"tool">>), NoTokens, NoArguments)]
    /\ frame = [i \in Pair |-> IdleFrame]
    /\ obs = [op |-> None, given |-> [scheme |-> NoTokens, host |-> NoTokens,
                                      path |-> <<"tool">>, end |-> NoTokens],
              r |-> "ok", value |-> << >>]
    /\ response_cache = << >>

NextParse ==
    \/ ParseReference
    \/ RenderReference
    \/ ParseRendered

SpecParse == InitParse /\ [][NextParse]_vars

(***************************************************************************)
(* SpecPmap: sretoolbox.utils.concurrent.pmap on an executor of the        *)
(* standard library.  Here frame is the running call: its arguments, the   *)
(* futures pool.map created, the position the result iterator waits at and *)
(* the list built so far; obs is how the last call ended; img and          *)
(* response_cache are not used.  An element is named by its position in    *)
(* the iterable; func returns for it a value of its own or raises an       *)
(* exception of its own.                                                   *)
(***************************************************************************)
\* what func does for an element: return, raise an Exception, or raise
\* SystemExit
FuncOutcomes == {"value", "Exception", "SystemExit"}

NoException == [kind |-> None, of |-> 0]

\* func(element) for the element at position k
Func(outcomes, k) ==
    [raised |-> outcomes[k] # "value", value |-> [kind |-> outcomes[k], of |-> k]]

\* _catching_traceback: whatever func raises is returned
CatchingTraceback(call) == [raised |-> FALSE, value |-> call.value]

\* _full_traceback: SystemExit is wrapped, anything else passes
FullTraceback(call) ==
    IF call.raised /\ call.value.kind = "SystemExit"
    THEN [raised |-> TRUE,
          value |-> [kind |-> "SystemExitWrapperError", of |-> call.value.of]]
    ELSE call

TracerAlwaysCatching(return_exceptions, call) == CatchingTraceback(call)

\* tracer = _catching_traceback if return_exceptions else _full_traceback
Tracer(return_exceptions, call) ==
    IF return_exceptions THEN CatchingTraceback(call) ELSE FullTraceback(call)

UnwrappedNever(exception) == exception

\* "except SystemExitWrapperError as details:
\*      raise details.original_sys_exit_exception"
Unwrapped(exception) ==
    IF exception.kind = "SystemExitWrapperError"
    THEN [kind |-> "SystemExit", of |-> exception.of]
    ELSE exception

IdlePmap ==
    [pc |-> "idle", outcomes |-> << >>, return_exceptions |-> FALSE,
     pool_size |-> 1, futures |-> << >>, next |-> 1, results |-> << >>,
     raising |-> NoException,
     finished |-> << >>]         \* history: the order the workers finished in

\* pmap(func, iterable, executor, pool_size, return_exceptions) up to
\* pool.map, which submits one future per element
Pmap ==
    /\ frame.pc \in {"idle", "done"}
    /\ \E n \in 0..MaxItems :
         \E outcomes \in [1..n -> FuncOutcomes],
            return_exceptions \in BOOLEAN,
            pool_size \in 1..MaxPoolSize :
             frame' = [IdlePmap EXCEPT
                          !.pc = "map",
                          !.outcomes = outcomes,
                          !.return_exceptions = return_exceptions,
                          !.pool_size = pool_size,
                          !.futures = [k \in 1..n |->
                                          [state |-> "pending", raised |-> FALSE,
                                           value |-> NoException]]]
    /\ obs' = [r |-> None, value |-> << >>, exception |-> NoException]
    /\ UNCHANGED <<img, response_cache>>

\* the futures in state
Futures(state) == { k \in DOMAIN frame.futures : frame.futures[k].state = state }

\* a worker of the pool that is free takes the work item queued first
WorkerStart(k) ==
    /\ k \in Futures("pending")
    /\ \A j \in Futures("pending") : k <= j
    /\ Cardinality(Futures("running")) < frame.pool_size
    /\ frame' = [frame EXCEPT !.futures[k].state = "running"]
    /\ UNCHANGED <<img, obs, response_cache>>

\* a worker ends its work item, tracer(func, element): the future holds what
\* it returned or raised
WorkerFinish(k) ==
    /\ k \in Futures("running")
    /\ \E call \in {Tracer(frame.return_exceptions, Func(frame.outcomes, k))} :
         frame' = [frame EXCEPT !.futures[k] = [state |-> "finished",
                                                 raised |-> call.raised,
                                                 value |-> call.value],
                                !.finished = Append(@, k)]
    /\ UNCHANGED <<img, obs, response_cache>>

\* list(pool.map(...)) takes the result of the future it waits for, in the
\* order of the iterable; an exception leaves the iterator, which cancels
\* the futures not yet started
Collect ==
    /\ frame.pc = "map"
    /\ frame.next \in Futures("finished")
    /\ IF frame.futures[frame.next].raised
       THEN frame' = [frame EXCEPT
                        !.pc = "shutdown",
                        !.raising = Unwrapped(frame.futures[frame.next].value),
                        !.futures = [k \in DOMAIN frame.futures |->
                                        IF frame.futures[k].state = "pending"
                                        THEN [frame.futures[k] EXCEPT !.state = "cancelled"]
                                        ELSE frame.futures[k]]]
       ELSE frame' = [frame EXCEPT
                        !.results = Append(@, frame.futures[frame.next].value),
                        !.next = @ + 1]
    /\ UNCHANGED <<img, obs, response_cache>>

\* the iterator is exhausted: the list is complete
Collected ==
    /\ frame.pc = "map"
    /\ frame.next > Len(frame.futures)
    /\ frame' = [frame EXCEPT !.pc = "shutdown"]
    /\ UNCHANGED <<img, obs, response_cache>>

\* the with block is left: the executor waits for the work items still
\* running, then pmap returns the list or the exception reaches the caller
Shutdown ==
    /\ frame.pc = "shutdown"
    /\ Futures("running") = {}
    /\ frame' = [frame EXCEPT !.pc = "done"]
    /\ obs' = IF frame.raising = NoException
              THEN [r |-> "returned", value |-> frame.results,
                    exception |-> NoException]
              ELSE [r |-> "raised", value |-> << >>, exception |-> frame.raising]
    /\ UNCHANGED <<img, response_cache>>

InitPmap ==
    /\ img = << >>
    /\ frame = IdlePmap
    /\ obs = [r |-> None, value |-> << >>, exception |-> NoException]
    /\ response_cache = << >>

NextPmap ==
    \/ Pmap
    \/ \E k \in 1..MaxItems : WorkerStart(k)
    \/ \E k \in 1..MaxItems : WorkerFinish(k)
    \/ Collect
    \/ Collected
    \/ Shutdown

\* every thread that can take a step takes one
SpecPmap ==
    InitPmap /\ [][NextPmap]_vars
      /\ WF_vars(\E k \in 1..MaxItems : WorkerStart(k))
      /\ WF_vars(\E k \in 1..MaxItems : WorkerFinish(k))
      /\ WF_vars(Collect) /\ WF_vars(Collected) /\ WF_vars(Shutdown)

(***************************************************************************)
(* SpecCache: sretoolbox.utils.cache, the decorators static and remove on  *)
(* the methods of two instances of a class, for one key.  Here frame is    *)
(* the module: _CACHES and the count of executions of the decorated        *)
(* function, each of which returns a new object (named by that count);     *)
(* obs is the last call; img and response_cache are not used.              *)
(***************************************************************************)
\* the instances (not equal to each other) whose methods are called
Owners == {1, 2}

\* a dict without the key
NoEntry == [has |-> FALSE, value |-> 0]

\* what the method decorated with remove does itself: nothing but return, or
\* read what the method decorated with static returns
Bodies == {"return", "self.static()"}

\* with_cache_get on the instance whose dict is cache, executions being the
\* count of executions so far: the dict afterwards, the value returned and
\* whether func was executed
WithCacheGet(cache, executions) ==
    IF cache.has
    THEN [cache |-> cache, value |-> cache.value, executed |-> FALSE]
    ELSE [cache |-> [has |-> TRUE, value |-> executions + 1],
          value |-> executions + 1, executed |-> TRUE]

\* raw_remove
RawRemove(cache) == NoEntry

\* with_cache_flush: raw_remove(self, key), then func(self, ...), which is
\* body
WithCacheFlush(cache, executions, body) ==
    IF body = "self.static()"
    THEN [WithCacheGet(RawRemove(cache), executions) EXCEPT !.value = 0]
    ELSE [cache |-> RawRemove(cache), value |-> 0, executed |-> FALSE]

\* the call ended with result: the dict of owner and the count of executions
\* are updated
Called(op, owner, result) ==
    /\ frame' = [frame EXCEPT
                    !.caches[owner] = result.cache,
                    !.executions = @ + (IF result.executed THEN 1 ELSE 0)]
    /\ obs' = [op |-> op, owner |-> owner, value |-> result.value,
               executed |-> result.executed]
    /\ UNCHANGED <<img, response_cache>>

\* instance.static(), the method decorated with static(key)
CallStatic(owner) ==
    /\ frame.executions < MaxExecutions
    /\ Called("static", owner, WithCacheGet(frame.caches[owner], frame.executions))

\* instance.remove(), the method decorated with remove(key)
CallRemove(owner) ==
    /\ frame.executions < MaxExecutions
    /\ \E body \in Bodies :
          Called("remove", owner,
                 WithCacheFlush(frame.caches[owner], frame.executions, body))

InitCache ==
    /\ img = << >>
    /\ frame = [caches |-> [owner \in Owners |-> NoEntry], executions |-> 0]
    /\ obs = [op |-> None, owner |-> 0, value |-> 0, executed |-> FALSE]
    /\ response_cache = << >>

NextCache ==
    \E owner \in Owners :
        \/ CallStatic(owner)
        \/ CallRemove(owner)

SpecCache == InitCache /\ [][NextCache]_vars

(***************************************************************************)
(* SpecJobName: sretoolbox.utils.k8s.unique_job_name, a pure function of   *)
(* strings, which are sequences of characters here.  obs holds the         *)
(* arguments and, after the call, the value; img, frame and response_cache *)
(* are not used.                                                           *)
(***************************************************************************)
\* the characters of the arguments: a lower-case letter, an upper-case one, one
\* that no name may hold, the dash, and U+0130 (capital I with dot above),
\* whose lower case is two characters
NameCharacters == {"a", "B", "_", "-", "U+0130"}

\* str.lower() of one character
LowerCharacter(c) ==
    CASE c = "B" -> <<"b">>
      [] c = "U+0130" -> <<"i", "U+0307">>
      [] OTHER -> <<c>>

\* [a-z0-9-]
KubernetesCharacters ==
    {"a", "b", "c", "d", "e", "f", "i", "p", "r", "s", "x",
     "0", "1", "2", "3", "4", "5", "6", "7", "8", "9", "-"}

RECURSIVE Lower(_)
\* str.lower()
Lower(string) ==
    IF string = << >> THEN << >>
    ELSE LowerCharacter(Head(string)) \o Lower(Tail(string))

\* re.sub(r"[^a-z0-9-]", "-", string)
DashForOthers(string) ==
    [k \in DOMAIN string |->
        IF string[k] \in KubernetesCharacters THEN string[k] ELSE "-"]

RECURSIVE OneDash(_)
\* re.sub(r"-+", "-", string)
OneDash(string) ==
    IF Len(string) < 2 THEN string
    ELSE IF string[1] = "-" /\ string[2] = "-" THEN OneDash(Tail(string))
    ELSE <<Head(string)>> \o OneDash(Tail(string))

RECURSIVE StripDashes(_)
\* str.strip("-")
StripDashes(string) ==
    IF string = << >> THEN << >>
    ELSE IF Head(string) = "-" THEN StripDashes(Tail(string))
    ELSE IF string[Len(string)] = "-"
         THEN StripDashes(SubSeq(string, 1, Len(string) - 1))
    ELSE string

\* string[:-n] for n > 0
WithoutLast(string, n) == SubSeq(string, 1, Len(string) - n)

\* uuid.uuid4().hex[:8]: eight hexadecimal digits, any
UuidHex ==
    {<<"0", "a", "1", "b", "2", "c", "3", "d">>,
     <<"f", "f", "f", "f", "f", "f", "f", "f">>}

\* unique_job_name, hex being what uuid4 gives should it be asked
unique_job_name(name, prefix, suffix, max_length, hex) ==
    LET prefix1 == IF prefix # << >> /\ prefix[Len(prefix)] # "-"
                   THEN prefix \o <<"-">> ELSE prefix
        suffix1 == IF suffix = << >> THEN hex ELSE suffix
        suffix2 == IF suffix1[1] # "-" THEN <<"-">> \o suffix1 ELSE suffix1
        total_length == Len(prefix1) + Len(name) + Len(suffix2)
        name1 == IF total_length > max_length
                 THEN WithoutLast(name, total_length - max_length)
                 ELSE name
        full_name == prefix1 \o name1 \o suffix2
    IN  StripDashes(OneDash(DashForOthers(Lower(full_name))))

RECURSIVE Strings(_, _)
\* the strings of up to n characters out of characters
Strings(characters, n) ==
    IF n = 0 THEN {<< >>}
    ELSE LET shorter == Strings(characters, n - 1)
         IN  shorter \cup {<<c>> \o string : c \in characters, string \in shorter}

JobNames == Strings(NameCharacters, MaxNameLength)

JobPrefixes == {<< >>, <<"p">>, <<"p", "-">>, <<"p", "r", "e", "f", "i", "x">>}

JobSuffixes == {<< >>, <<"s">>, <<"-", "s">>}

JobMaxLengths == {4, 8, 63}

\* the call
UniqueJobName ==
    /\ obs.op = "arguments"
    /\ \E hex \in UuidHex :
          obs' = [obs EXCEPT
                     !.op = "unique_job_name",
                     !.value = unique_job_name(obs.name, obs.prefix, obs.suffix,
                                               obs.max_length, hex)]
    /\ UNCHANGED <<img, frame, response_cache>>

InitJobName ==
    /\ img = << >>
    /\ frame = << >>
    /\ response_cache = << >>
    /\ \E name \in JobNames, prefix \in JobPrefixes, suffix \in JobSuffixes,
          max_length \in JobMaxLengths :
          obs = [op |-> "arguments", name |-> name, prefix |-> prefix,
                 suffix |-> suffix, max_length |-> max_length, value |-> << >>]

NextJobName == UniqueJobName

SpecJobName == InitJobName /\ [][NextJobName]_vars

(***************************************************************************)
(* SpecShared: two Images of one reference, in two threads, sharing one    *)
(* response cache that nobody locks and nobody evicts from.  The steps of  *)
(* their manifest fetches (one HTTP exchange each) interleave, and each    *)
(* thread constructs a new Image when it is done with the old one.  The    *)
(* registry is up and asks for no authentication: every request is         *)
(* answered 200 or 304.                                                    *)
(***************************************************************************)
SharedImages(reg) == { NewImage(reg, None, None, None, TRUE, None) }

\* what the registry answers in these runs
SharedOutcomes == OkResponses \cup {NotModified}

\* thread i reads image.manifest
AccessShared(i) == AccessFetch(i, "manifest")

\* the request of thread i is answered
SendShared(i) ==
    /\ frame[i].pc = "send"
    /\ \E out \in SharedOutcomes : Commit(i, SendFirst(Machine(i), out))

InitShared ==
    /\ \E reg \in {"docker.io", "registry.access.redhat.com"} :
          img \in [Pair -> SharedImages(reg)]
    /\ frame = [i \in Pair |-> IdleFrame]
    /\ obs = [i \in Pair |-> FreshObs]
    /\ response_cache = << >>

NextShared ==
    \E i \in Pair :
        \/ AccessShared(i)
        \/ SendShared(i)
        \/ Construct(i, SharedImages(img[i].registry))

SpecShared == InitShared /\ [][NextShared]_vars /\ WF_vars(NextShared)

(***************************************************************************)
(* Properties.  In them a fetch "issues a HEAD" or "a GET" when it calls   *)
(* the request primitive _do_request with that method: the primitive may   *)
(* put the request on the wire again after a 401 challenge and in each     *)
(* retried attempt.                                                        *)
(***************************************************************************)
Key(i) == GetCacheKey(img[i], ManifestUrl(img[i]))

Strategy(i) == HandleResponseCacheMethod(img[i].registry)

\* the step ends the manifest fetch of i with a response returned
FetchReturns(i) == frame[i].pc # "idle" /\ obs'[i].fetch = "returned"

\* the step ends the manifest fetch of i with an exception
FetchRaises(i) == frame[i].pc # "idle" /\ obs'[i].fetch = "raised"

\* in this step _do_request returns the HEAD response of the digest strategy
HeadReturns(i) ==
    frame[i].stage = "head" /\ obs[i].head_digest = "-" /\ obs'[i].head_digest # "-"

\* C1 (as claimed): once a manifest fetch of an Image has succeeded (its
\* response was returned and parsed), no access to manifest, content_type or
\* digest of that Image starts another fetch: every later access is answered
\* from the memoized values, without a request.
C1_OneFetchAfterSuccess ==
    \A i \in Img : obs[i].fetched => obs[i].fetch # "running"

\* C2: digest-comparison strategy, hit.  When the HEAD response of a fetch
\* that found an entry for its key carries the Docker-Content-Digest of the
\* cached response, the fetch ends in that step: it has issued one HEAD and no
\* GET, returns the cached response, counts one hit and no miss, and leaves
\* the cache entry as it was.
C2_DigestHit ==
    [][\A i \in Img :
        (HeadReturns(i) /\ obs'[i].head_digest # None
            /\ obs'[i].head_digest = response_cache[Key(i)].digest)
        => /\ Strategy(i) = "_handle_docker_content_digest"
           /\ frame'[i].pc = "idle"
           /\ obs'[i].fetch = "returned"
           /\ obs'[i].head_requests = 1
           /\ obs'[i].get_requests = 0
           /\ obs'[i].last_request.method = "HEAD"
           /\ obs'[i].returned = response_cache[Key(i)]
           /\ img'[i].response_cache_hits = img[i].response_cache_hits + 1
           /\ obs'[i].hits = 1
           /\ img'[i].response_cache_misses = img[i].response_cache_misses
           /\ obs'[i].misses = 0
           /\ response_cache' = response_cache]_vars

\* a fetch of the digest strategy ended with a hit
C2_Witness ==
    \E i \in Img :
        /\ Strategy(i) = "_handle_docker_content_digest"
        /\ obs[i].fetch = "returned"
        /\ obs[i].head_requests = 1
        /\ obs[i].hits = 1
        /\ obs[i].returned.digest = obs[i].head_digest

\* C3: conditional-request strategy with an entry for the key.  The fetch
\* issues one GET and no HEAD; the GET carries If-None-Match and
\* If-Modified-Since exactly where the cached response has ETag and
\* Last-Modified, with their values.  When the GET returns 304 the fetch
\* counts a hit, returns the cached response and leaves the entry as it was;
\* when it returns any other response the fetch counts a miss, stores that
\* response under the key and returns it.
C3_ConditionalRequest ==
    [][\A i \in Img :
        /\ frame'[i].stage = "conditional"
           => /\ Strategy(i) = "_handle_conditional_request"
              /\ Key(i) \in DOMAIN response_cache
              /\ frame'[i].cached_response = response_cache[Key(i)]
              /\ frame'[i].method = "GET"
              /\ frame'[i].headers.if_none_match = response_cache[Key(i)].etag
              /\ frame'[i].headers.if_modified_since = response_cache[Key(i)].lastmod
              /\ obs'[i].get_requests = 1
              /\ obs'[i].head_requests = 0
              /\ obs'[i].last_request.to = "registry"
                 => /\ obs'[i].last_request.method = "GET"
                    /\ obs'[i].last_request.headers = frame'[i].headers
              /\ response_cache' = response_cache
        /\ (frame[i].stage = "conditional" /\ frame'[i].stage # "conditional")
           => /\ frame'[i].pc = "idle"
              /\ obs'[i].get_requests = 1
              /\ obs'[i].head_requests = 0
              /\ obs'[i].last_request.to = "registry"
                 => obs'[i].last_request.headers = frame[i].headers
              /\ FetchReturns(i) \/ FetchRaises(i)
              /\ FetchRaises(i) => response_cache' = response_cache
              /\ (FetchReturns(i) /\ obs'[i].get_rsp.status = NOT_MODIFIED)
                 => /\ obs'[i].returned = response_cache[Key(i)]
                    /\ response_cache' = response_cache
                    /\ obs'[i].hits = 1 /\ obs'[i].misses = 0
                    /\ img'[i].response_cache_hits = img[i].response_cache_hits + 1
                    /\ img'[i].response_cache_misses = img[i].response_cache_misses
              /\ (FetchReturns(i) /\ obs'[i].get_rsp.status # NOT_MODIFIED)
                 => /\ obs'[i].returned = obs'[i].get_rsp
                    /\ response_cache' = (Key(i) :> obs'[i].get_rsp) @@ response_cache
                    /\ obs'[i].hits = 0 /\ obs'[i].misses = 1
                    /\ img'[i].response_cache_hits = img[i].response_cache_hits
                    /\ img'[i].response_cache_misses = img[i].response_cache_misses + 1]_vars

\* a conditional GET carrying only If-Modified-Since got 304: a hit
C3_Witness ==
    \E i \in Img :
        /\ Strategy(i) = "_handle_conditional_request"
        /\ obs[i].fetch = "returned"
        /\ obs[i].get_rsp.status = NOT_MODIFIED
        /\ obs[i].hits = 1
        /\ obs[i].last_request.headers = [if_none_match |-> None, if_modified_since |-> "t1"]
        /\ obs[i].returned = response_cache[Key(i)]

\* C4: digest-comparison strategy, miss.  When the HEAD response of a fetch
\* that found an entry carries no Docker-Content-Digest, or one that differs
\* from the cached response's, the fetch counts one miss and no hit and issues
\* one full GET; the response of that GET replaces the cache entry and is
\* returned, and until the GET returns the entry stays as it was.
C4_DigestMiss ==
    [][\A i \in Img :
        /\ (HeadReturns(i)
              /\ (obs'[i].head_digest = None
                   \/ obs'[i].head_digest # response_cache[Key(i)].digest))
           => /\ frame'[i].stage = "get"
              /\ frame'[i].pc = "send"
              /\ frame'[i].method = "GET"
              /\ frame'[i].headers = NoHeaders
              /\ obs'[i].head_requests = 1
              /\ obs'[i].get_requests = 1
              /\ obs'[i].misses = 1 /\ obs'[i].hits = 0
              /\ img'[i].response_cache_misses = img[i].response_cache_misses + 1
              /\ img'[i].response_cache_hits = img[i].response_cache_hits
              /\ response_cache' = response_cache
        /\ frame[i].stage = "get"
           => /\ obs'[i].head_requests = 1
              /\ obs'[i].get_requests = 1
              /\ obs'[i].misses = 1 /\ obs'[i].hits = 0
              /\ img'[i].response_cache_misses = img[i].response_cache_misses
              /\ img'[i].response_cache_hits = img[i].response_cache_hits
              /\ obs'[i].last_request.to = "registry"
                 => obs'[i].last_request.method = "GET"
              /\ IF FetchReturns(i)
                 THEN /\ obs'[i].get_rsp # NoResponse
                      /\ obs'[i].returned = obs'[i].get_rsp
                      /\ response_cache' = (Key(i) :> obs'[i].get_rsp) @@ response_cache
                 ELSE response_cache' = response_cache]_vars

\* a HEAD with a differing digest was followed by a GET whose response
\* replaced the entry
C4_Witness ==
    \E i \in Img :
        /\ obs[i].fetch = "returned"
        /\ obs[i].head_requests = 1 /\ obs[i].get_requests = 1
        /\ obs[i].head_digest = "sha256:b"
        /\ obs[i].misses = 1
        /\ obs[i].returned.digest = "sha256:a"
        /\ response_cache[Key(i)] = obs[i].returned

\* the manifest fetches of Image i go through the response cache: one was
\* supplied and the dispatch table names a strategy for the registry
ThroughCache(i) == img[i].has_response_cache /\ Strategy(i) # None

\* the fetch of i has ended, with a response or with an exception
FetchEnded(i) == obs[i].fetch \in {"returned", "raised"}

\* C5 (as claimed): every manifest fetch that goes through a supplied
\* response_cache on a registry with a cache strategy has incremented exactly
\* one of the two counters, by exactly 1, when it ends.
C5_EveryFetchCountsOnce ==
    \A i \in Img :
        (ThroughCache(i) /\ FetchEnded(i)) => obs[i].hits + obs[i].misses = 1

\* C5 (amended): a fetch through the cache that returns a response has
\* incremented exactly one of the counters, by exactly 1; a fetch that ends
\* with an exception has incremented no counter, or the miss counter once (it
\* found no entry, or its HEAD showed a change, and the GET failed).  A fetch
\* that finds no entry is a miss from its start and, when it returns, has
\* stored the fetched response under the key.  No step of an Image lowers a
\* counter, and each counter moves by the increments of the fetch alone.
C5_Accounting ==
    [][\A i \in Img :
        /\ (ThroughCache(i) /\ obs'[i].fetch = "returned")
           => /\ obs'[i].hits + obs'[i].misses = 1
              /\ obs'[i].hits \in {0, 1}
        /\ (ThroughCache(i) /\ obs'[i].fetch = "raised")
           => /\ obs'[i].hits = 0
              /\ obs'[i].misses \in {0, 1}
              /\ obs'[i].misses = 1 <=> frame[i].stage \in {"first", "get"}
        /\ frame'[i].stage = "first"
           => /\ ThroughCache(i)
              /\ Key(i) \notin DOMAIN response_cache
              /\ obs'[i].misses = 1 /\ obs'[i].hits = 0
              /\ frame'[i].method = "GET" /\ frame'[i].headers = NoHeaders
        /\ (frame[i].stage = "first" /\ FetchReturns(i))
           => /\ obs'[i].misses = 1 /\ obs'[i].hits = 0
              /\ response_cache' = (Key(i) :> obs'[i].get_rsp) @@ response_cache
              /\ obs'[i].returned = obs'[i].get_rsp
        /\ (ThroughCache(i) /\ Step(i))
           => /\ img'[i].response_cache_hits >= img[i].response_cache_hits
              /\ img'[i].response_cache_misses >= img[i].response_cache_misses
              /\ frame[i].pc # "idle"
                 => /\ img'[i].response_cache_hits - img[i].response_cache_hits
                          = obs'[i].hits - obs[i].hits
                    /\ img'[i].response_cache_misses - img[i].response_cache_misses
                          = obs'[i].misses - obs[i].misses
              /\ frame[i].pc = "idle"
                 => /\ img'[i].response_cache_hits = img[i].response_cache_hits
                                                        + obs'[i].hits
                    /\ img'[i].response_cache_misses = img[i].response_cache_misses
                                                        + obs'[i].misses]_vars

\* a second fetch of one Image (its first returned a JSON null body) found
\* the entry and ended as a hit: one miss and one hit are on the counters
C5_Witness ==
    \E i \in Img :
        /\ ThroughCache(i)
        /\ obs[i].fetch = "returned"
        /\ obs[i].hits = 1 /\ obs[i].misses = 0
        /\ img[i].response_cache_hits = 1
        /\ img[i].response_cache_misses = 1

\* C6: cache bypass.  For an Image constructed without response_cache, or on
\* a registry without a cache strategy, every manifest fetch issues one GET
\* without conditional headers and no HEAD, no step reads or writes the cache
\* map (no cached response is fetched from it, the map stays as it is), and
\* the counters keep their constructor values: null without response_cache,
\* 0 with one.
C6_CacheBypass ==
    [][\A i \in Img :
        (~ThroughCache(i) /\ Step(i))
        => /\ response_cache' = response_cache
           /\ frame'[i].stage \in {None, "bypass"}
           /\ frame'[i].cached_response = NoResponse
           /\ frame'[i].pc # "idle"
              => /\ frame'[i].method = "GET"
                 /\ frame'[i].headers = NoHeaders
           /\ obs'[i].head_requests = 0
           /\ obs'[i].get_requests = (IF obs'[i].fetch = None THEN 0 ELSE 1)
           /\ obs'[i].last_request.to = "registry"
              => /\ obs'[i].last_request.method = "GET"
                 /\ obs'[i].last_request.headers = NoHeaders
           /\ obs'[i].hits = 0 /\ obs'[i].misses = 0
           /\ img'[i].response_cache_hits = img[i].response_cache_hits
           /\ img'[i].response_cache_misses = img[i].response_cache_misses
           /\ img'[i].response_cache_hits
                 = (IF img[i].has_response_cache THEN 0 ELSE NoCount)
           /\ img'[i].response_cache_misses
                 = (IF img[i].has_response_cache THEN 0 ELSE NoCount)
           /\ FetchReturns(i) => obs'[i].returned = obs'[i].get_rsp]_vars

\* an Image with a supplied cache, on a registry without strategy, fetched
\* its manifest: the cache is still empty and no miss was counted
C6_Witness ==
    \E i \in Img :
        /\ img[i].has_response_cache
        /\ Strategy(i) = None
        /\ obs[i].fetch = "returned"
        /\ obs[i].get_requests = 1
        /\ response_cache = << >>
        /\ img[i].response_cache_misses = 0

\* an Image constructed without response_cache, on a registry that has a
\* strategy, fetched its manifest: its counters are still null
C6_WitnessNoCache ==
    \E i \in Img :
        /\ ~img[i].has_response_cache
        /\ Strategy(i) # None
        /\ obs[i].fetch = "returned"
        /\ img[i].response_cache_hits = NoCount

\* the credentials the Image i was constructed with
CredentialsOf(i) == <<img[i].username, img[i].password>>

\* the step replaces the entry the cache held for the key of i
Overwrites(i) ==
    /\ Key(i) \in DOMAIN response_cache
    /\ response_cache'[Key(i)] # response_cache[Key(i)]

\* C7 (as claimed): an entry stored by a fetch made with one set of
\* credentials (username and password) is never returned to, nor overwritten
\* by, a fetch of the same manifest URL made with different credentials.
C7_IsolatedByCredentials ==
    [][\A i \in Img :
        /\ (FetchReturns(i) /\ obs'[i].hits = 1)
           => obs'[i].returned.owner = CredentialsOf(i)
        /\ (FetchReturns(i) /\ Overwrites(i))
           => response_cache[Key(i)].owner = CredentialsOf(i)]_vars

\* C7 (amended): an entry stored by a fetch made with one username is never
\* returned to, nor overwritten by, a fetch of the same manifest URL made with
\* a different username (or with none); every entry of the cache was fetched
\* with the username of its key, and a fetch reads and writes the entry of its
\* own (url, username) alone.
C7_IsolatedByUsername ==
    [][\A i \in Img :
        /\ \A k \in DOMAIN response_cache' : response_cache'[k].owner[1] = k[2]
        /\ Key(i) = <<ManifestUrl(img[i]), img[i].username>>
        /\ frame'[i].cached_response # NoResponse
           => /\ frame'[i].cached_response.owner[1] = img'[i].username
              /\ frame'[i].cached_response = response_cache[Key(i)]
        /\ (FetchReturns(i) /\ obs'[i].hits = 1)
           => /\ obs'[i].returned.owner[1] = img[i].username
              /\ obs'[i].returned = response_cache[Key(i)]
        /\ (FetchReturns(i) /\ Overwrites(i))
           => response_cache[Key(i)].owner[1] = img[i].username
        /\ \A k \in DOMAIN response_cache :
              k # Key(i) => /\ k \in DOMAIN response_cache'
                            /\ response_cache'[k] = response_cache[k]
        /\ response_cache' # response_cache => FetchReturns(i)]_vars

\* the cache holds the manifest of one URL once for the anonymous user and
\* once for alice, and an Image of alice was served her entry
C7_Witness ==
    \E i \in Img :
        /\ img[i].username = "alice"
        /\ obs[i].fetch = "returned"
        /\ obs[i].hits = 1
        /\ obs[i].returned.owner[1] = "alice"
        /\ <<ManifestUrl(img[i]), None>> \in DOMAIN response_cache
        /\ response_cache[<<ManifestUrl(img[i]), None>>].owner = <<None, None>>

\* the pcs of an attempt of _do_request
InAttempt == {"send", "get_auth", "get_auth_anon", "resend"}

\* the step raises exc out of the attempt of i: the decorator goes to sleep
\* with it or lets it leave _do_request
Raises(i, exc) ==
    \/ frame'[i].pc = "sleep" /\ frame'[i].exception = exc
    \/ frame'[i].pc = "idle" /\ obs'[i].fetch = "raised" /\ obs'[i].result.kind = exc

DelaysBefore(k) == [j \in 1..(k - 1) |-> j]

\* C9: retry bound and ordering.  A call of _do_request makes at most 5
\* attempts, one after the other; attempt k + 1 starts only out of the sleep
\* of k seconds that follows attempt k having raised HTTPError or a connection
\* error, so that the delays before attempt k are 1, ..., k - 1; a returning
\* attempt ends the call with its response; one of those errors leaves the
\* call only from the 5th attempt, and any other exception at once.
C9_RetryBoundAndOrder ==
    [][\A i \in Img :
        /\ frame'[i].attempt \in 0..max_attempts
        /\ frame'[i].pc = "idle" <=> frame'[i].attempt = 0
        /\ frame'[i].pc # "idle" => obs'[i].delays = DelaysBefore(frame'[i].attempt)
        /\ (frame[i].pc # "idle" /\ frame'[i].attempt = frame[i].attempt + 1)
           => /\ frame[i].pc = "sleep"
              /\ frame[i].exception \in {"HTTPError", "ConnectionError"}
              /\ frame'[i].pc = "send"
              /\ obs'[i].delays = Append(obs[i].delays, frame[i].attempt)
              /\ obs'[i].calls = 0
        /\ frame[i].pc = "sleep"
           => /\ frame'[i].attempt = frame[i].attempt + 1
              /\ frame'[i].method = frame[i].method
              /\ frame'[i].headers = frame[i].headers
              /\ frame'[i].stage = frame[i].stage
        /\ frame[i].pc \in InAttempt
           => \/ frame'[i].attempt = frame[i].attempt
              \/ frame'[i].pc = "idle"
              \/ frame'[i].stage # frame[i].stage /\ frame'[i].attempt = 1
        /\ frame'[i].pc = "sleep"
           => /\ frame[i].pc \in InAttempt
              /\ frame'[i].exception \in {"HTTPError", "ConnectionError"}
              /\ frame[i].attempt < max_attempts
        /\ (FetchRaises(i) /\ obs'[i].result.kind \in {"HTTPError", "ConnectionError"})
           => /\ frame[i].attempt = max_attempts
              /\ obs[i].delays = <<1, 2, 3, 4>>
        /\ (FetchRaises(i) /\ obs'[i].result.kind \notin {"HTTPError", "ConnectionError"})
           => obs'[i].result.kind = "KeyError"
        /\ FetchReturns(i)
           => /\ frame[i].pc \in {"send", "resend"}
              /\ obs'[i].get_rsp.status \in 200..(ERROR_STATUS_FROM - 1)
              /\ obs'[i].get_rsp.status \in {obs'[i].first, obs'[i].second}]_vars

\* the 5th attempt of a call is under way, after sleeps of 1, 2, 3 and 4
\* seconds, and has sent its request again after a challenge
C9_Witness ==
    \E i \in Img :
        /\ frame[i].attempt = max_attempts
        /\ frame[i].pc = "resend"
        /\ obs[i].delays = <<1, 2, 3, 4>>

\* C10: credential restriction.  If auth_server is set and differs from the
\* registry, no request of the Image, to the registry or to the token
\* endpoint, carries basic-auth credentials; otherwise a request carries none
\* but the Image's (username, password), and a request to the registry
\* carries them only when the Image holds no bearer token at that moment.
C10_CredentialRestriction ==
    \A i \in Img :
        LET req == obs[i].last_request
        IN  /\ (img[i].auth_server # None /\ img[i].auth_server # img[i].registry)
               => req.basic = NoAuth
            /\ req.basic # NoAuth
               => /\ req.basic = <<img[i].username, img[i].password>>
                  /\ img[i].username # None /\ img[i].password # None
            /\ (req.to = "registry" /\ req.basic # NoAuth)
               => req.held = None /\ req.bearer = None

\* an Image with credentials and an auth_server that is not its registry
\* asked the token endpoint for a token, without credentials
C10_Witness ==
    \E i \in Img :
        /\ img[i].username = "alice" /\ img[i].password = "pw1"
        /\ img[i].auth_server = "auth.example.com"
        /\ obs[i].last_request.to = "realm"
        /\ obs[i].last_request.basic = NoAuth
        /\ frame[i].pc = "resend"

\* the access to tags of i has ended
TagsEnded(i) == frame[i].pc = "idle" /\ obs[i].fetch \in {"returned", "swallowed", "raised"}

\* C11 (as claimed): an access to tags never raises: it ends with a list,
\* the empty one whenever the listing failed, and that list is memoized, so
\* that a later access sends no request.
C11_TagsNeverFatal ==
    \A i \in Img :
        TagsEnded(i)
        => /\ obs[i].result.kind = "value"
           /\ img[i].cache_tags.memoized
           /\ img[i].cache_tags.list = obs[i].result.value

\* in this step _get_tags receives a page of tags (one of the first MaxPages)
PageReceived(i) ==
    frame[i].stage = "tags" /\ Len(obs'[i].pages) = Len(obs[i].pages) + 1

\* the page received last
LastPage(i) == obs'[i].pages[Len(obs'[i].pages)]

\* after the step _get_tags is requesting a further page
FurtherPage(i) == frame'[i].stage = "tags" /\ frame'[i].pc = "send"

\* the first k of the pages, one after the other
RECURSIVE ConcatPages(_, _)
ConcatPages(pages, k) ==
    IF k = 0 THEN << >> ELSE ConcatPages(pages, k - 1) \o Page(k, pages[k].n)

\* C12 (as claimed): a further page is requested iff the last page returned
\* exactly 50 entries and carried a next link.
C12_FurtherPageIffExactly50 ==
    [][\A i \in Img :
        PageReceived(i)
        => (FurtherPage(i) <=> (LastPage(i).n = 50 /\ LastPage(i).next))]_vars

\* C12 (amended): the first request asks for page size 50; a further page is
\* requested iff the last page returned at least 50 entries and carried a next
\* link; the result is the in-order concatenation of all fetched pages, and
\* the number of requests is the position of the first page that is short
\* (< 50 entries) or has no next link.
C12_Pagination ==
    [][\A i \in Img :
        /\ (frame[i].pc = "idle" /\ frame'[i].stage = "tags")
           => /\ obs'[i].get_requests = 1
              /\ frame'[i].method = "GET"
              /\ frame'[i].url = img[i].registry_api \o "/v2/"
                                   \o img[i].repository \o "/" \o img[i].image
                                   \o "/tags/list?n=50"
        /\ PageReceived(i)
           => /\ Len(obs'[i].pages) = obs[i].get_requests
              /\ FurtherPage(i) <=> (LastPage(i).n >= 50 /\ LastPage(i).next)
              /\ FurtherPage(i)
                 => /\ obs'[i].get_requests = obs[i].get_requests + 1
                    /\ frame'[i].all_tags
                          = ConcatPages(obs'[i].pages, Len(obs'[i].pages))
              /\ ~FurtherPage(i)
                 => /\ frame'[i].pc = "idle"
                    /\ obs'[i].fetch = "returned"
                    /\ obs'[i].get_requests = Len(obs'[i].pages)
                    /\ obs'[i].result.kind = "value"
                    /\ obs'[i].result.value
                          = ConcatPages(obs'[i].pages, Len(obs'[i].pages))
                    /\ img'[i].cache_tags.list = obs'[i].result.value
                    /\ \A k \in 1..(Len(obs'[i].pages) - 1) :
                          obs'[i].pages[k].n >= 50 /\ obs'[i].pages[k].next]_vars

\* pages of 50, 50 and 12 names were fetched with three requests and tags
\* returned their 112 names, the 12 of the third page last
C12_Witness ==
    \E i \in Img :
        /\ obs[i].fetch = "returned"
        /\ obs[i].get_requests = 3
        /\ obs[i].pages = << [n |-> 50, next |-> TRUE], [n |-> 50, next |-> TRUE],
                             [n |-> 12, next |-> TRUE] >>
        /\ Len(obs[i].result.value) = 112
        /\ obs[i].result.value[101] = 301
        /\ img[i].cache_tags.list = obs[i].result.value

\* C13 (as claimed): whatever the registry answers, a listing of tags that
\* has begun eventually ends, with a list or with an exception.
C13_TagsTerminate ==
    \A i \in Img : (obs[i].fetch = "running") ~> (frame[i].pc = "idle")

\* the manifest document and the content type an operand holds
DocOf(i) == Document(img[i].cache_manifest)
TypeOf(i) == img[i].cache_content_type

\* both operands hold a retrieved manifest
BothRetrieved == \A i \in Pair : img[i].cache_manifest # None

\* the two documents have the key and the same value under it
SameEntries(i, j, key) ==
    /\ key \in DocOf(i).keys \cap DocOf(j).keys
    /\ DocOf(i)[key] = DocOf(j)[key]

\* C14: with both manifests retrieved, a == b is true iff the schema versions
\* are equal and either (schema version 1) the fsLayers lists are identical,
\* or (other versions) the content types are identical and the layers (of a
\* single-arch type) or the manifests (of a multi-arch type) are identical;
\* mismatched schema versions, content types (of responses that carry one)
\* or entries give false; and b == a, evaluated on the same two manifests,
\* has the outcome of a == b.
C14_Equality ==
    /\ [](obs.op = "__eq__" /\ BothRetrieved
          => LET a == obs.self
                 b == obs.other
                 versions == SameEntries(a, b, "schemaVersion")
                 legacy == DocOf(a).schemaVersion = 1
                 claimed ==
                    /\ versions
                    /\ \/ legacy /\ SameEntries(a, b, "fsLayers")
                       \/ /\ ~legacy
                          /\ TypeOf(a) = TypeOf(b)
                          /\ \/ /\ TypeOf(a) \in SINGLE_ARCH_MEDIA_TYPES
                                /\ SameEntries(a, b, "layers")
                             \/ /\ TypeOf(a) \in MULTI_ARCH_MEDIA_TYPES
                                /\ SameEntries(a, b, "manifests")
                 present(key) == key \in DocOf(a).keys \cap DocOf(b).keys
             IN  /\ obs.r = "True" <=> claimed
                 /\ present("schemaVersion") /\ ~versions => obs.r = "False"
                 /\ versions /\ ~legacy /\ TypeOf(a) # TypeOf(b)
                      /\ TypeOf(a) # None /\ TypeOf(b) # None
                       => obs.r = "False"
                 /\ versions /\ legacy /\ present("fsLayers")
                      /\ DocOf(a).fsLayers # DocOf(b).fsLayers
                       => obs.r = "False"
                 /\ versions /\ ~legacy /\ TypeOf(a) = TypeOf(b)
                      /\ \/ /\ TypeOf(a) \in SINGLE_ARCH_MEDIA_TYPES
                            /\ present("layers")
                            /\ DocOf(a).layers # DocOf(b).layers
                         \/ /\ TypeOf(a) \in MULTI_ARCH_MEDIA_TYPES
                            /\ present("manifests")
                            /\ DocOf(a).manifests # DocOf(b).manifests
                       => obs.r = "False")
    /\ [][obs.op = "__eq__" /\ obs'.op = "__eq__" /\ BothRetrieved
            /\ obs'.self = obs.other /\ obs'.other = obs.self /\ img' = img
          => obs'.r = obs.r]_vars

\* two multi-arch Images of one content type and one manifests list compared
\* equal
C14_Witness ==
    /\ obs.op = "__eq__" /\ obs.r = "True"
    /\ TypeOf(1) = SCHEMA2_MANIFEST_LIST_MEDIA_TYPE
    /\ TypeOf(2) = SCHEMA2_MANIFEST_LIST_MEDIA_TYPE
    /\ DocOf(1).manifests = <<"sha256:a">>
    /\ DocOf(2).manifests = <<"sha256:a">>

\* C15 (as claimed): if the manifest of either operand cannot be fetched,
\* comparing the two Images raises ImageComparisonError.
C15_ComparisonErrorOnFailedFetch ==
    obs.op = "__eq__" /\ obs.failed # None => obs.r = "ImageComparisonError"

\* C16: bool(image) is true iff the manifest can be fetched and is not empty;
\* an HTTPError raised by the fetch makes it return false.
C16_Truthiness ==
    obs.op = "__bool__"
    => /\ obs.r = "True"
          <=> /\ obs.failed = None
              /\ img[obs.self].cache_manifest # None
              /\ DocOf(obs.self).keys # {}
       /\ obs.failed = "HTTPError" => obs.r = "False"
       /\ obs.failed = None => obs.r \in {"True", "False"}

\* the fetch of the manifest raised HTTPError and bool(image) returned false
C16_Witness ==
    obs.op = "__bool__" /\ obs.failed = "HTTPError" /\ obs.r = "False"

\* bool(image) returned false for a fetched manifest that is the empty object
C16_WitnessEmpty ==
    /\ obs.op = "__bool__" /\ obs.failed = None /\ obs.r = "False"
    /\ img[obs.self].cache_manifest = "{}"

\* some entry of the manifests list of j carries the digest of i
HasEntryOf(j, i) ==
    \E k \in 1..Len(DocOf(j).manifests) : DocOf(j).manifests[k] = img[i].cache_digest

C17_WitnessContainsError ==
    /\ obs.op = "is_part_of" /\ obs.r = "ImageContainsError"
    /\ TypeOf(obs.self) \in SINGLE_ARCH_MEDIA_TYPES
    /\ TypeOf(obs.other) = SCHEMA2_MANIFEST_MEDIA_TYPE

\* the Image in slot i was constructed from a by-digest reference, and
\* without tag override
ByDigest(i) == img[i].reference.digest # NoTokens /\ img[i].tag = NoTokens

\* C18 (as claimed): for an Image constructed from a by-digest reference
\* (without tag override), reading digest returns the digest given in the
\* reference and issues no network request.
C18_ReferenceDigestWithoutNetwork ==
    obs.op = "digest" /\ ByDigest(obs.self)
    => /\ obs.r = "ok"
       /\ obs.value = img[obs.self].reference.digest
       /\ obs.fetches = 0

\* C19 (as claimed): after construction (with or without a tag override) and
\* after indexing, the tag of the new Image is null iff the Image carries a
\* digest taken from its reference; an Image with a non-null tag carries no
\* reference-supplied digest.
C19_TagXorReferenceDigest ==
    obs.op \in {"__init__", "__getitem__"} /\ obs.made # 0
    => (img[obs.made].tag = NoTokens <=> img[obs.made].cache_digest # None)

\* "{scheme}{registry}[/{repository}]/{image}" of the Image in slot i
RenderedUpToImage(i) ==
    img[i].scheme \o img[i].registry
        \o (IF img[i].repository = NoTokens THEN << >> ELSE <<"/">> \o img[i].repository)
        \o <<"/">> \o img[i].image

\* C20 (as claimed): str(image) is {scheme}{registry}[/{repository}]/{image}
\* followed by :{tag} when tag is non-null and by @{digest} exactly when tag
\* is null; url_tag raises the no-tag error exactly when tag is null and
\* returns {registry}[/{repository}]/{image}:{tag} otherwise.
C20_Rendering ==
    /\ obs.op = "__str__"
       => /\ obs.r = "ok"
          /\ img[obs.self].tag # NoTokens
             => obs.value = RenderedUpToImage(obs.self) \o <<":">> \o img[obs.self].tag
          /\ img[obs.self].tag = NoTokens
             => \E h \in Hex64 :
                   obs.value = RenderedUpToImage(obs.self) \o <<"@", "sha256", ":", h>>
    /\ obs.op = "url_tag"
       => /\ obs.r = "NoTagForImageByDigest" <=> img[obs.self].tag = NoTokens
          /\ img[obs.self].tag # NoTokens
             => /\ obs.r = "ok"
                /\ img[obs.self].scheme \o obs.value
                     = RenderedUpToImage(obs.self) \o <<":">> \o img[obs.self].tag

\* C21 (as claimed): indexing image[t] returns a new Image with the scheme,
\* registry, repository and image of the parent, the tag t, the parent's
\* username, password and auth_server, the parent's response_cache object
\* and the parent's current auth_token; the parent is left unchanged.
C21_IndexingKeepsAllButTag ==
    [][obs'.op = "__getitem__"
       => /\ obs'.r = "ok"
          /\ obs'.made = 2
          /\ \A field \in {"scheme", "registry", "repository", "image", "username",
                            "password", "auth_server", "response_cache",
                            "auth_token"} :
                img'[2][field] = img[1][field]
          /\ img'[2].tag \in Tags
          /\ img'[1] = img[1]]_vars

C23_RoundTrip ==
    [][obs'.op = "parse(str)"
       => /\ obs'.r = "ok"
          /\ \A field \in {"scheme", "registry", "repository", "image", "tag",
                            "cache_digest"} :
                img'[1][field] = img[1][field]]_vars

\* a reference with a scheme, a port, a repository and a digest went round
C23_Witness ==
    /\ obs.op = "parse(str)"
    /\ obs.r = "ok"
    /\ obs.given = [scheme |-> <<"https", ":", "/", "/">>,
                    host |-> <<"quay.io", ":", "5000">>,
                    path |-> <<"app-sre", "/", "tool">>,
                    end |-> <<"@", "sha256", ":", ReferenceHex>>]
    /\ img[1].repository = <<"app-sre">>
    /\ img[1].cache_digest = DigestOf(ReferenceHex)

\* the number of slash-separated segments of a path
Segments(path) == (Len(path) + 1) \div 2

\* the reference is written as
\* [scheme://][registry[:port]/][repository/]image[(@digest)|(:tag)], the
\* registry with a dot
WholeGrammar(given) ==
    /\ given.host # NoTokens => given.host[1] \in DottedRuns
    /\ Segments(given.path) <= 2
    /\ given.end \in {NoTokens, <<":", "v1">>, <<"@", "sha256", ":", ReferenceHex>>}

\* C24: for a reference written in the grammar, a missing scheme is parsed
\* as "docker://" and a missing registry as "docker.io"; a missing repository
\* as "library" iff the resolved registry is "docker.io" and as null
\* otherwise; the tag is "latest" iff neither tag nor digest is written; a
\* by-digest reference has a null tag and its digest set.
C24_ParserDefaults ==
    obs.op = "__init__" /\ WholeGrammar(obs.given)
    => /\ obs.r = "ok"
       /\ img[1].scheme = IF obs.given.scheme = NoTokens
                          THEN <<"docker", ":", "/", "/">> ELSE obs.given.scheme
       /\ img[1].registry = IF obs.given.host = NoTokens
                            THEN <<"docker.io">> ELSE obs.given.host
       /\ img[1].repository =
             IF Segments(obs.given.path) = 2 THEN <<obs.given.path[1]>>
             ELSE IF img[1].registry = <<"docker.io">> THEN <<"library">>
             ELSE NoTokens
       /\ img[1].image = <<obs.given.path[Len(obs.given.path)]>>
       /\ img[1].tag = <<"latest">> <=> obs.given.end = NoTokens
       /\ obs.given.end = <<":", "v1">>
             => img[1].tag = <<"v1">> /\ img[1].cache_digest = None
       /\ obs.given.end = <<"@", "sha256", ":", ReferenceHex>>
             => img[1].tag = NoTokens /\ img[1].cache_digest = DigestOf(ReferenceHex)

\* "tool" was parsed to docker://docker.io/library/tool:latest
C24_Witness ==
    /\ obs.op = "__init__"
    /\ obs.given = [scheme |-> NoTokens, host |-> NoTokens, path |-> <<"tool">>,
                    end |-> NoTokens]
    /\ img[1].registry = <<"docker.io">>
    /\ img[1].repository = <<"library">>
    /\ img[1].tag = <<"latest">>

\* "docker.io:5000/tool@sha256:..." was parsed to a null repository and a
\* null tag
C24_WitnessNull ==
    /\ obs.op = "__init__"
    /\ obs.given = [scheme |-> NoTokens, host |-> <<"docker.io", ":", "5000">>,
                    path |-> <<"tool">>,
                    end |-> <<"@", "sha256", ":", ReferenceHex>>]
    /\ img[1].repository = NoTokens
    /\ img[1].tag = NoTokens

\* C25 (as claimed): for a reference whose path after the registry has more
\* than two slash-separated segments, the registry is the given host, the
\* repository the first segment of the path and the image the whole
\* remainder, slashes included.
C25_MultiSegmentImage ==
    /\ obs.op = "__init__"
    /\ obs.given.host # NoTokens
    /\ obs.given.host[1] \in DottedRuns
    /\ Segments(obs.given.path) > 2
    /\ obs.given.end \in {NoTokens, <<":", "v1">>, <<"@", "sha256", ":", ReferenceHex>>}
    => /\ obs.r = "ok"
       /\ img[1].registry = obs.given.host
       /\ img[1].repository = <<obs.given.path[1]>>
       /\ img[1].image = SubSeq(obs.given.path, 3, Len(obs.given.path))

\* C26 (as claimed): a string that does not match the reference grammar as
\* a whole is rejected with a parse error, no suffix or fragment of it being
\* accepted; so is one in which a tag follows "@sha256:<64 hex>".  The
\* strings taken here are those that end in neither a path, a tag nor a
\* digest.
C26_RejectsWhatIsNotAReference ==
    /\ obs.op = "__init__"
    /\ obs.given.end \notin {NoTokens, <<":", "v1">>, <<"@", "sha256", ":", ReferenceHex>>}
    => obs.r = "AttributeError"

\* C27 (as claimed): the leading segment of a reference is its registry iff
\* it contains a dot or a colon, a port being appended as "host:port"; a
\* leading segment without dot and colon is the repository or the image, and
\* the registry is then "docker.io".  The references taken are those of one
\* or two path segments that end in nothing, a tag or a digest; a host among
\* their parts is a leading segment with a dot or a colon, and without a
\* host the leading segment is the first of the path.
C27_RegistryRecognition ==
    /\ obs.op = "__init__"
    /\ Segments(obs.given.path) <= 2
    /\ obs.given.host = NoTokens => obs.given.path[1] \notin DottedRuns
    /\ obs.given.end \in {NoTokens, <<":", "v1">>, <<"@", "sha256", ":", ReferenceHex>>}
    => /\ obs.r = "ok"
       /\ obs.given.host # NoTokens => img[1].registry = obs.given.host
       /\ obs.given.host = NoTokens
             => /\ img[1].registry = <<"docker.io">>
                /\ img[1].image = <<obs.given.path[Len(obs.given.path)]>>
                /\ Segments(obs.given.path) = 2
                      => img[1].repository = <<obs.given.path[1]>>

\* C28 (as claimed): when _get_manifest returns a response whose body is not
\* JSON, the manifest access fails at once, without another request, with
\* the manifest-parse error of the library (ImageInvalidManifestError, the
\* kind the test suite imports from image.py), a kind other than HTTPError,
\* and memoizes nothing.
C28_InvalidManifestError ==
    [][\A i \in Img :
          /\ obs[i].fetch = "running"
          /\ obs'[i].fetch = "returned"
          /\ obs'[i].returned.body = EmptyBody
          => /\ frame'[i] = IdleFrame
             /\ obs'[i].result.kind = "ImageInvalidManifestError"
             /\ img'[i].cache_manifest = img[i].cache_manifest
             /\ img'[i].cache_content_type = img[i].cache_content_type
             /\ img'[i].cache_digest = img[i].cache_digest]_vars

\* the status of the response the running or the latest attempt of
\* _do_request ended with: that of the re-sent request or, where none was
\* re-sent, that of the first unless it is a 401 with a challenge; -1 where
\* there is none yet
FinalStatus(g) ==
    IF g.second # -1 THEN g.second
    ELSE IF g.first = UNAUTHORIZED /\ g.challenge # None THEN -1
    ELSE g.first

Entry(k) == [kind |-> frame.outcomes[k], of |-> k]

\* the positions of the elements func raises for
Failing == { k \in DOMAIN frame.outcomes : frame.outcomes[k] # "value" }

C30_WitnessRaised ==
    /\ frame.pc = "done"
    /\ ~frame.return_exceptions
    /\ frame.finished = <<1, 3, 2>>
    /\ obs.r = "raised"
    /\ obs.exception = [kind |-> "Exception", of |-> 2]

\* the position of the first element of the call that func raises for
FirstFailing == CHOOSE k \in Failing : \A j \in Failing : k <= j

C32_KeyedInstanceCache ==
    /\ [][(obs'.op = "static")
           => /\ frame.caches[obs'.owner].has
                 => /\ ~obs'.executed
                    /\ obs'.value = frame.caches[obs'.owner].value
              /\ (obs.op = "remove" /\ obs'.owner = obs.owner)
                 => obs'.executed]_vars
    /\ [](/\ (obs.op = "remove") => ~frame.caches[obs.owner].has
          /\ (frame.caches[1].has /\ frame.caches[2].has)
             => frame.caches[1].value # frame.caches[2].value)

\* C33 (as claimed): whatever the name, the prefix, the suffix and max_length,
\* the value of unique_job_name has at most max_length characters.
C33_WithinMaxLength ==
    obs.op = "unique_job_name" => Len(obs.value) <= obs.max_length

\* C34: token reuse.  A request sent to the registry by an Image that holds
\* a token (from the constructor or from a negotiation) carries that token as
\* its Authorization header and no basic-auth credentials; the request sent
\* again after a negotiation carries the token just negotiated.  While a
\* request of the Image is under way its token changes only in the step that
\* ends a negotiation successfully, after a first response of 401 with a
\* challenge, and becomes '<scheme> <token>'.
C34_TokenReuse ==
    /\ [](\A i \in Img :
            LET req == obs[i].last_request
            IN  (req.to = "registry" /\ req.held # None)
                => req.bearer = req.held /\ req.basic = NoAuth)
    /\ [][\A i \in Img :
            /\ (frame[i].pc = "send" /\ img[i].auth_token # None)
               => /\ obs'[i].last_request.to = "registry"
                  /\ obs'[i].last_request.bearer = img[i].auth_token
                  /\ obs'[i].last_request.basic = NoAuth
            /\ frame[i].pc = "resend"
               => /\ img[i].auth_token # None
                  /\ obs'[i].last_request.to = "registry"
                  /\ obs'[i].last_request.bearer = img[i].auth_token
                  /\ obs'[i].last_request.basic = NoAuth
            /\ (frame[i].pc # "idle" /\ img'[i].auth_token # img[i].auth_token)
               => /\ frame[i].pc \in {"get_auth", "get_auth_anon"}
                  /\ obs[i].first = UNAUTHORIZED /\ obs[i].challenge # None
                  /\ frame'[i].pc = "resend"
                  /\ \E t \in IssuedTokens :
                        img'[i].auth_token = AuthString(obs[i].challenge, t)]_vars

\* an Image constructed with credentials that may go to its registry and with
\* a token has sent a request with the token and without the credentials,
\* and the registry has answered 200
C34_Witness ==
    \E i \in Img :
        /\ img[i].auth = <<"alice", "pw1">>
        /\ img[i].auth_token = "Bearer t0"
        /\ obs[i].last_request.to = "registry"
        /\ obs[i].last_request.bearer = "Bearer t0"
        /\ obs[i].last_request.basic = NoAuth
        /\ obs[i].calls = 1
        /\ obs[i].first = 200
        /\ obs[i].fetch = "returned"

\* C35: token negotiation.  In one attempt the realm receives at most two
\* requests, both GET: the first carries the auth of the Image (its
\* credentials, unless auth_server keeps them from going out), the second
\* carries none and is sent only after the first was answered 401; neither
\* carries a token.  The negotiation succeeds when its last response has a
\* status below 400 and a token: the Image's token is then '<scheme> <token>'
\* of the scheme of the challenge and that token, and the request is sent
\* again.
C35_Negotiation ==
    /\ [](\A i \in Img :
            /\ Len(obs[i].realm) <= 2
            /\ Len(obs[i].realm) = 2 => obs[i].realm[1] = UNAUTHORIZED
            /\ obs[i].realm # << >>
               => obs[i].first = UNAUTHORIZED /\ obs[i].challenge # None)
    /\ [][\A i \in Img :
            /\ frame[i].pc = "get_auth"
               => /\ obs[i].realm = << >>
                  /\ Len(obs'[i].realm) = 1
                  /\ obs'[i].last_request.to = "realm"
                  /\ obs'[i].last_request.method = "GET"
                  /\ obs'[i].last_request.basic = img[i].auth
                  /\ obs'[i].last_request.bearer = None
                  /\ frame'[i].pc = "get_auth_anon" <=> obs'[i].realm[1] = UNAUTHORIZED
            /\ frame[i].pc = "get_auth_anon"
               => /\ Len(obs'[i].realm) = 2
                  /\ obs'[i].last_request.to = "realm"
                  /\ obs'[i].last_request.method = "GET"
                  /\ obs'[i].last_request.basic = NoAuth
                  /\ obs'[i].last_request.bearer = None
            /\ frame'[i].pc = "resend"
               => /\ frame[i].pc \in {"get_auth", "get_auth_anon"}
                  /\ obs'[i].realm[Len(obs'[i].realm)] = 200
                  /\ \E t \in IssuedTokens :
                        img'[i].auth_token = obs[i].challenge \o " " \o t
            /\ obs'[i].realm # obs[i].realm
               => \/ obs'[i].realm = << >>
                  \/ frame[i].pc \in {"get_auth", "get_auth_anon"}]_vars

\* an Image with credentials asked the realm with them, was answered 401,
\* asked again without them, and holds the token of the second answer
C35_Witness ==
    \E i \in Img :
        /\ img[i].auth = <<"alice", "pw1">>
        /\ obs[i].realm = <<UNAUTHORIZED, 200>>
        /\ obs[i].last_request.to = "realm"
        /\ obs[i].last_request.basic = NoAuth
        /\ frame[i].pc = "resend"
        /\ img[i].auth_token = "Bearer t1"

\* C36 (as claimed): an Image constructed from a by-digest reference, without
\* tag override, holds the digest of its reference in every reachable state,
\* whatever has been retrieved since.
C36_ReferenceDigestKept ==
    \A i \in Pair :
        ByDigest(i) => img[i].cache_digest = Text(img[i].reference.digest)

\* the manifest fetch of i through the cache has ended with HTTPError or a
\* connection error, the retries being exhausted
FetchFailed(i) ==
    /\ ThroughCache(i)
    /\ obs[i].fetch = "raised"
    /\ obs[i].result.kind \in {"HTTPError", "ConnectionError"}

\* C37 (as claimed): a manifest fetch through the response cache that ends in
\* HTTPError or a connection error has incremented neither counter.
C37_FailedFetchCountsNothing ==
    \A i \in Img : FetchFailed(i) => obs[i].hits = 0 /\ obs[i].misses = 0

\* C37 (amended): no step of a manifest fetch through the response cache
\* other than the one in which it returns changes the response_cache map or
\* what the Image has memoized, so that a fetch that ends in an error leaves
\* them as they were before it; the manifest is unset then and a later access
\* fetches again.  Such a fetch has not incremented the hit counter; it has
\* incremented the miss counter once if it was the full GET that failed (no
\* entry for the key, or the HEAD showed a change), and not at all if it was
\* the HEAD or the conditional GET.
C37_FailedFetch ==
    /\ [][\A i \in Img :
            /\ /\ ThroughCache(i)
               /\ frame[i].pc # "idle" \/ frame'[i].pc # "idle"
               /\ obs'[i].fetch # "returned"
               => /\ response_cache' = response_cache
                  /\ img'[i].cache_manifest = img[i].cache_manifest
                  /\ img'[i].cache_content_type = img[i].cache_content_type
                  /\ img'[i].cache_digest = img[i].cache_digest
            /\ (ThroughCache(i) /\ FetchRaises(i))
               => /\ obs'[i].hits = 0
                  /\ obs'[i].misses = IF frame[i].stage \in {"first", "get"} THEN 1 ELSE 0
                  /\ img'[i].response_cache_hits = img[i].response_cache_hits
                  /\ img'[i].response_cache_misses = img[i].response_cache_misses
                  /\ frame[i].stage \in {"first", "get", "head", "conditional"}]_vars
    /\ [](\A i \in Img :
            FetchFailed(i) => NeedsFetch(img[i], "manifest"))

\* on the 5th attempt the HEAD of a fetch that found an entry for its key
\* failed: the entry is still there and no counter has moved
C37_Witness ==
    \E i \in Img :
        /\ FetchFailed(i)
        /\ obs[i].head_requests = 1 /\ obs[i].get_requests = 0
        /\ Key(i) \in DOMAIN response_cache
        /\ obs[i].hits = 0 /\ obs[i].misses = 0
        /\ img[i].response_cache_misses = 1

\* the full GET of a fetch that found no entry failed: one miss was counted
C37_WitnessMiss ==
    \E i \in Img :
        /\ FetchFailed(i)
        /\ obs[i].get_requests = 1 /\ obs[i].head_requests = 0
        /\ Key(i) \notin DOMAIN response_cache
        /\ obs[i].misses = 1

\* in this step the negotiation of i fails: the realm answers with a status
\* >= 400, and no request without credentials is left to try
NegotiationFails(i) ==
    /\ frame[i].pc \in {"get_auth", "get_auth_anon"}
    /\ Len(obs'[i].realm) = Len(obs[i].realm) + 1
    /\ LET status == obs'[i].realm[Len(obs'[i].realm)]
       IN  /\ status >= ERROR_STATUS_FROM
           /\ frame[i].pc = "get_auth" => status # UNAUTHORIZED

C39_HitKeepsEntry ==
    [][\A i \in Pair :
        (FetchReturns(i) /\ obs'[i].hits = 1)
        => response_cache'[Key(i)] = response_cache[Key(i)]]_vars

\* the urls of tags pages that begin with the registry API base of o
TagsUrlsOnApiBase(o) ==
    { o.registry_api \o TagsPath(o), o.registry_api \o TagsPath(o) \o "&last=t" }

\* C40 (as claimed): every request for a page of tags, the first and each one
\* that follows a next link, goes to a url on the registry API base of the
\* Image.
C40_TagsRequestsOnApiBase ==
    \A i \in Img :
        (frame[i].stage = "tags" /\ frame[i].pc # "idle")
        => frame[i].url \in TagsUrlsOnApiBase(img[i])

====
